---- MODULE Spec2Model ----
(***************************************************************************)
(* naive-stm: transactions over shared cells, queues and maps.             *)
(*                                                                         *)
(* Every thread performs one Tx::run call.  The closure of a call is a     *)
(* short program of library operations (track, drop, cell get / get_mut,   *)
(* queue push / pop, map insert / remove / get); one model step is one     *)
(* library operation, one lock acquisition of the commit, the validation   *)
(* loop, or one iteration of the write loop.                               *)
(***************************************************************************)
EXTENDS Integers, Sequences, FiniteSets, TLC

\* ------------------------------------------------------------------ bounds
NThreads == 2

\* tests/cell.rs triple_swap spawns (0..3) runs
TripleSwapRuns == 3

Threads == 1..(IF NThreads > TripleSwapRuns THEN NThreads ELSE TripleSwapRuns)

\* ------------------------------------------------------- shared containers
\* StmVarId of the containers, in creation order (StmVarId::new counts up).
CellA == 0
CellB == 1
QueueQ == 2
MapM == 3
QueueR == 4
QueueS == 5
MapN == 6

\* the cells a closure creates with StmCell::new take the ids that follow
FirstNewCell == 7
MaxNewCells == 3
NewCells == FirstNewCell..(FirstNewCell + MaxNewCells - 1)

Vars == {CellA, CellB, QueueQ, MapM, QueueR, QueueS, MapN} \cup NewCells

Kind(v) ==
    IF v \in {CellA, CellB} \cup NewCells THEN "cell"
    ELSE IF v \in {QueueQ, QueueR, QueueS} THEN "queue" ELSE "map"

\* Option::None of an item read from a queue or a map (items are naturals).
NoneVal == -1

\* TxOptions::default().attempts
DefaultAttempts == 10

\* ---------------------------------------------------------------- helpers
Min(S) == CHOOSE x \in S : \A y \in S : x <= y

Put(f, k, x) == [kk \in (DOMAIN f) \cup {k} |-> IF kk = k THEN x ELSE f[kk]]

Del(f, k) == [kk \in (DOMAIN f) \ {k} |-> f[kk]]

EmptyMap == [kk \in {} |-> 0]

\* ------------------------------------------------------ closure programs
\* An instruction of a closure: the library operation, the container, the
\* map key, the operand expression, the local that receives the result,
\* whether the Result is propagated with `?`, and the local whose being
\* None skips the instruction (`if let Some(..)`; 0 = unconditional; -i is
\* the `else` branch, skipped when local i is Some).
Ins(op, var, key, e, dst, try, guard) ==
    [op |-> op, var |-> var, key |-> key, e |-> e, dst |-> dst, try |-> try, guard |-> guard]

Reg(i) == [k |-> "reg", a |-> i, b |-> 0]
Const(c) == [k |-> "const", a |-> c, b |-> 0]
Sum(i, j) == [k |-> "sum", a |-> i, b |-> j]
Inc(i, c) == [k |-> "inc", a |-> i, b |-> c]
Count(i, j) == [k |-> "count", a |-> i, b |-> j]
Neg(i) == [k |-> "neg", a |-> i, b |-> 0]
MinC(i, c) == [k |-> "minc", a |-> i, b |-> c]
NonZero(i) == [k |-> "nonzero", a |-> i, b |-> 0]
Pack(i, j) == [k |-> "pack", a |-> i, b |-> j]
KeyOf(i) == [k |-> "key", a |-> i, b |-> 0]
FuelOf(i) == [k |-> "fuel", a |-> i, b |-> 0]

\* a queue item (key, fuel) of mixed_containers as one number
ItemBase == 10

Eval(e, rg) ==
    CASE e.k = "reg" -> rg[e.a]
      [] e.k = "const" -> e.a
      [] e.k = "sum" -> rg[e.a] + rg[e.b]
      [] e.k = "inc" -> rg[e.a] + e.b
      [] e.k = "count" -> Cardinality({i \in {e.a, e.b} : rg[i] # NoneVal})
      [] e.k = "neg" -> 0 - rg[e.a]
      [] e.k = "minc" -> IF rg[e.a] < e.b THEN rg[e.a] ELSE e.b
      [] e.k = "nonzero" -> IF rg[e.a] = 0 THEN NoneVal ELSE rg[e.a]
      [] e.k = "pack" -> rg[e.a] * ItemBase + rg[e.b]
      [] e.k = "key" -> rg[e.a] \div ItemBase
      [] e.k = "fuel" -> rg[e.a] % ItemBase

TrackI(v) == Ins("track", v, 0, Const(0), 0, TRUE, 0)
TrackNoTry(v) == Ins("track", v, 0, Const(0), 0, FALSE, 0)
DropI(v) == Ins("drop", v, 0, Const(0), 0, FALSE, 0)
GetI(v, dst) == Ins("get", v, 0, Const(0), dst, FALSE, 0)
SetI(v, e) == Ins("set", v, 0, e, 0, FALSE, 0)
PushI(v, e, g) == Ins("push", v, 0, e, 0, FALSE, g)
PopI(v, dst) == Ins("pop", v, 0, Const(0), dst, TRUE, 0)
InsertI(v, k, e, g) == Ins("insert", v, k, e, 0, FALSE, g)
RemoveI(v, k, g) == Ins("remove", v, k, Const(0), 0, FALSE, g)
MGetI(v, k, dst) == Ins("mget", v, k, Const(0), dst, TRUE, 0)
PeekI(v, dst) == Ins("peek", v, 0, Const(0), dst, TRUE, 0)
MHasI(v, k, dst) == Ins("mhas", v, k, Const(0), dst, TRUE, 0)
\* map.get_mut(key)?.unwrap(), the value read into dst and `+= add` through the reference
MGetMutI(v, k, dst, add) == Ins("mget_mut", v, k, Const(add), dst, TRUE, 0)
\* `+=` / `-=` through TxCell::get_mut
AddI(v, e) == Ins("add", v, 0, e, 0, FALSE, 0)
TakeI(v, dst) == Ins("take", v, 0, Const(0), dst, FALSE, 0)
NewCellI(dst, e) == Ins("new_cell", 0, 0, e, dst, FALSE, 0)
IterI(v, dst) == Ins("iter", v, 0, Const(0), dst, FALSE, 0)
\* Iterator::next of the iterator whose cursor is local c, with `?`
NextI(v, c, dst) == Ins("next", v, c, Const(0), dst, TRUE, 0)
LetI(dst, e) == Ins("let", 0, 0, e, dst, FALSE, 0)
\* a local drawn from lo..e
RandI(dst, lo, e) == Ins("rand", 0, lo, e, dst, FALSE, 0)
JumpI(target) == Ins("jump", 0, target, Const(0), 0, FALSE, 0)
IsEmptyI(v, dst) == Ins("is_empty", v, 0, Const(0), dst, TRUE, 0)
FirstKeyI(v, dst) == Ins("first_key", v, 0, Const(0), dst, TRUE, 0)
\* map.get_mut(key)? compared with an Option, the reference left unused
MGetMutOptI(v, k, dst) == Ins("mget_mut_opt", v, k, Const(0), dst, TRUE, 0)
\* std::mem::forget(handle): the TxRef is gone and its Drop never runs
ForgetI(v) == Ins("forget", v, 0, Const(0), 0, FALSE, 0)
RetI(e) == Ins("ret", 0, 0, e, 0, FALSE, 0)
AbortI == Ins("abort", 0, 0, Const(0), 0, FALSE, 0)

\* the instruction inside `if let Some(..) = local g` (g > 0) or its `else` (g < 0)
When(g, I) == [I EXCEPT !.guard = g]

\* tests/cell.rs two_transactions_add_2_cells, tx_1: a := a + b
AddT1 ==
    << TrackI(CellA), TrackI(CellB), TrackNoTry(CellA),
       GetI(CellA, 1), GetI(CellB, 2), SetI(CellA, Sum(1, 2)), RetI(Sum(1, 2)) >>

\* tests/cell.rs two_transactions_add_2_cells, tx_2: b := a + b
AddT2 ==
    << TrackI(CellB), TrackI(CellA), GetI(CellA, 1), GetI(CellB, 2),
       DropI(CellB), TrackI(CellB), SetI(CellB, Sum(1, 2)), RetI(Sum(1, 2)) >>

\* tests/cell.rs read_cell
ReadCell == << TrackI(CellA), GetI(CellA, 1), RetI(Reg(1)) >>

\* read x, read y, write x := x + y, write y := 0
MoveXY ==
    << TrackI(CellA), TrackI(CellB), GetI(CellA, 1), GetI(CellB, 2),
       SetI(CellA, Sum(1, 2)), SetI(CellB, Const(0)), RetI(Sum(1, 2)) >>

\* the same closure tracking the two cells in the opposite textual order
MoveYX ==
    << TrackI(CellB), TrackI(CellA), GetI(CellA, 1), GetI(CellB, 2),
       SetI(CellA, Sum(1, 2)), SetI(CellB, Const(0)), RetI(Sum(1, 2)) >>

\* read x, write y := x + 1
SkewXY == << TrackI(CellA), TrackI(CellB), GetI(CellA, 1), SetI(CellB, Inc(1, 1)), RetI(Reg(1)) >>

\* read y, write x := y + 1
SkewYX == << TrackI(CellB), TrackI(CellA), GetI(CellB, 1), SetI(CellA, Inc(1, 1)), RetI(Reg(1)) >>

\* a buffered write followed by Tx::abort()
WriteAbort == << TrackI(CellA), TrackI(QueueQ), SetI(CellA, Const(1)), PushI(QueueQ, Const(9), 0), AbortI >>

\* a buffered write followed by a second track of the same variable with `?`
WriteRetrack == << TrackI(CellA), TrackI(CellB), SetI(CellB, Const(2)), TrackI(CellA), RetI(Const(0)) >>

\* tests/mixed_containers.rs, first transaction: cell -> queue
Produce ==
    << TrackI(CellA), TrackI(QueueQ), GetI(CellA, 1), SetI(CellA, Inc(1, -1)),
       PushI(QueueQ, Reg(1), 0), RetI(Reg(1)) >>

\* tests/mixed_containers.rs / tests/map.rs: queue -> map, remove a key
Consume ==
    << TrackI(QueueQ), TrackI(MapM), PopI(QueueQ, 1), PopI(QueueQ, 2),
       InsertI(MapM, 1, Reg(1), 1), InsertI(MapM, 3, Reg(2), 2),
       MGetI(MapM, 2, 2), RemoveI(MapM, 2, 2), MGetI(MapM, 1, 1), RetI(Sum(1, 2)) >>

\* a write, a second track while the handle is alive, drop, track again, read
Reopen ==
    << TrackI(CellA), SetI(CellA, Const(1)), TrackNoTry(CellA), GetI(CellA, 1), DropI(CellA),
       TrackI(CellA), GetI(CellA, 2), SetI(CellA, Inc(2, 1)), RetI(Sum(1, 2)) >>

\* a blind write of the cell
Overwrite == << TrackI(CellA), SetI(CellA, Const(3)), RetI(Const(3)) >>

\* reads of a queue and of a map after the closure's own writes
OwnWrites ==
    << TrackI(QueueQ), TrackI(MapM), PushI(QueueQ, Const(8), 0),
       PopI(QueueQ, 1), PeekI(QueueQ, 2), PopI(QueueQ, 1),
       InsertI(MapM, 2, Reg(1), 0), MGetI(MapM, 2, 2),
       RemoveI(MapM, 2, 0), MHasI(MapM, 2, 1), MGetI(MapM, 2, 2),
       InsertI(MapM, 1, Const(4), 0), MHasI(MapM, 1, 1), RetI(Sum(1, 2)) >>

\* tests/cell.rs triple_swap: mem::swap of the two cells through get_mut
Swap ==
    << TrackI(CellA), TrackI(CellB), GetI(CellA, 1), GetI(CellB, 2),
       SetI(CellA, Reg(2)), SetI(CellB, Reg(1)), RetI(Const(0)) >>

\* a closure that writes a cell and leaks the handle of another
Leak ==
    << TrackI(CellA), TrackI(CellB), SetI(CellA, Const(1)), ForgetI(CellB),
       TrackNoTry(CellB), RetI(Const(0)) >>

\* get_mut of a cell with the value it already has
TouchCell == << TrackI(CellA), GetI(CellA, 1), SetI(CellA, Reg(1)), RetI(Reg(1)) >>

\* get_mut of a map key that only the shared map has, the entry left as it is
TouchMap == << TrackI(MapM), MGetMutOptI(MapM, 2, 1), RetI(Reg(1)) >>

\* remove of a key the map does not have, next to reads of the cell and the map
RemoveAbsent ==
    << TrackI(CellA), TrackI(MapM), RemoveI(MapM, 4, 0), GetI(CellA, 1), MGetI(MapM, 2, 2),
       RetI(Sum(1, 2)) >>

\* a closure that only reads: a cell and the front of a queue
ReadPair ==
    << TrackI(CellA), TrackI(QueueQ), GetI(CellA, 1), PeekI(QueueQ, 2), RetI(Sum(1, 2)) >>

Scenarios ==
    {"add", "move", "skew", "errors", "budget", "pipe", "starve", "tight", "reopen", "own", "swap",
     "leak", "read", "touch"}

\* the threads that perform a run in the scenario; the others stay idle
Runs(s) == IF s \in {"swap", "read", "touch"} THEN 1..TripleSwapRuns ELSE 1..NThreads

Odd(t) == t % 2 = 1

Prog(s, t) ==
    CASE s = "add" -> IF t = 1 THEN AddT1 ELSE IF t = 2 THEN AddT2 ELSE ReadCell
      [] s = "move" -> IF Odd(t) THEN MoveXY ELSE MoveYX
      [] s = "budget" -> IF Odd(t) THEN MoveXY ELSE MoveYX
      [] s = "skew" -> IF Odd(t) THEN SkewXY ELSE SkewYX
      [] s = "errors" -> IF t = 1 THEN WriteAbort ELSE IF t = 2 THEN WriteRetrack ELSE MoveXY
      [] s = "pipe" -> IF Odd(t) THEN Produce ELSE Consume
      [] s = "starve" -> IF Odd(t) THEN Produce ELSE Consume
      [] s = "tight" -> IF Odd(t) THEN MoveXY ELSE MoveYX
      [] s = "reopen" -> IF Odd(t) THEN Reopen ELSE Overwrite
      [] s = "own" -> IF Odd(t) THEN OwnWrites ELSE Produce
      [] s = "swap" -> Swap
      [] s = "leak" -> IF Odd(t) THEN Leak ELSE Overwrite
      [] s = "read" -> IF t = TripleSwapRuns THEN Produce ELSE ReadPair
      [] s = "touch" -> IF t = 1 THEN TouchCell ELSE IF t = 2 THEN TouchMap ELSE RemoveAbsent

\* tx_opts.attempts of mixed_containers, scaled down
FuelAttempts == 2

\* TxOptions.attempts of the run; Tx::run uses the default
Attempts(s, t) ==
    CASE s \in {"budget", "starve"} -> 1
      [] s = "fuel" -> FuelAttempts
      [] s = "tight" -> NThreads
      [] OTHER -> DefaultAttempts

\* ------------------------------------------------- the worker loops
\* number_of_items of queue_forwarding, scaled down
NItems == 2

\* tests/queue.rs: the source queue holds 220, 221, ...
FirstItem == 220

Source == [i \in 1..NItems |-> FirstItem + i - 1]

\* the runs a worker loop may perform
MaxRuns == 3

\* tests/queue.rs queue_forwarding, the body of `for pipeline in worker_pipelines`:
\* local r receives the popped item, local 3 and 4 the asserted answers
Forward(from, to, r) ==
    << TrackI(from), TrackI(to), PopI(from, r),
       PushI(to, Reg(r), r), When(r, IsEmptyI(to, 3)), When(r, PeekI(to, 4)),
       When(-r, IsEmptyI(from, 3)), When(-r, PeekI(from, 4)),
       DropI(from), DropI(to) >>

\* the closure of a worker whose two pipelines came out of the shuffle as
\* (broker -> sink, source -> broker), and as (source -> broker, broker -> sink)
ForwardBack == Forward(QueueR, QueueS, 1) \o Forward(QueueQ, QueueR, 2) \o << RetI(Count(1, 2)) >>
ForwardOn == Forward(QueueQ, QueueR, 1) \o Forward(QueueR, QueueS, 2) \o << RetI(Count(1, 2)) >>

\* tests/map.rs make_counters: the key "removed_items"; the other keys are 1, 2, ...
RemovedItems == 0

\* tests/map.rs move_item
MoveItem(key, from, to, r) ==
    << MGetI(from, key, r), RemoveI(from, key, r), InsertI(to, key, Inc(r, 1), r),
       When(r, MGetMutI(from, RemovedItems, 2, 1)) >>

\* tests/map.rs maps_grouping: a worker that moves key 1 to the second map, and a
\* worker that moves key 2 there and key 3 back, tracking the maps again in between
GroupOne == << TrackI(MapM), TrackI(MapN) >> \o MoveItem(1, MapM, MapN, 1) \o << RetI(Const(0)) >>
GroupTwo ==
    << TrackI(MapM), TrackI(MapN) >> \o MoveItem(2, MapM, MapN, 1)
        \o << DropI(MapM), DropI(MapN), TrackI(MapN), TrackI(MapM) >>
        \o MoveItem(3, MapN, MapM, 1) \o << RetI(Const(0)) >>

\* make_counters of the two maps
Counters(keys) == [k \in keys \cup {RemovedItems} |-> 0]

\* total_fuel, fuel_per_step and the number of keys of mixed_containers,
\* scaled down
FuelTotal == 2
FuelPerStep == 2
NKeys == 1

\* tests/mixed_containers.rs, first transaction: source -> queue
\* (a var or key field -i stands for the value of local i)
FuelToQueue ==
    << TrackI(CellA), TrackI(QueueQ), GetI(CellA, 1),
       RandI(2, 0, MinC(1, FuelPerStep - 1)), LetI(4, NonZero(2)),
       When(-4, RetI(Const(0))),
       AddI(CellA, Neg(2)), RandI(3, 1, Const(NKeys)), PushI(QueueQ, Pack(3, 2), 0),
       RetI(Const(0)) >>

\* second transaction: queue -> the cell of the key in the map
FuelToMap ==
    << TrackI(QueueQ), TrackI(MapM),
       PopI(QueueQ, 1), When(-1, RetI(Const(0))),
       LetI(2, KeyOf(1)), LetI(3, FuelOf(1)),
       MHasI(MapM, -2, 4), LetI(4, NonZero(4)),
       When(-4, NewCellI(1, Reg(3))), When(-4, InsertI(MapM, -2, Reg(1), 0)),
       When(4, MGetMutI(MapM, -2, 1, 0)), When(4, TrackI(-1)),
       When(4, AddI(-1, Reg(3))), When(4, DropI(-1)),
       JumpI(3) >>

\* third transaction: the cells of the map -> sink
FuelToSink ==
    << TrackI(MapM), TrackI(CellB), IterI(MapM, 1),
       NextI(MapM, 1, 2), When(-2, JumpI(10)),
       TrackI(-2), TakeI(-2, 3), AddI(CellB, Reg(3)), JumpI(4),
       GetI(CellB, 3), RetI(Reg(3)) >>

\* variable/queue.rs queue_operations on a queue of two elements, with an
\* iteration at the end of the closure
QueueOps ==
    << TrackI(QueueQ), IsEmptyI(QueueQ, 1), PeekI(QueueQ, 1), PopI(QueueQ, 1),
       PushI(QueueQ, Const(777), 0),
       IterI(QueueQ, 3), NextI(QueueQ, 3, 2), NextI(QueueQ, 3, 2), NextI(QueueQ, 3, 2),
       PopI(QueueQ, 1), PeekI(QueueQ, 2), PopI(QueueQ, 1), IsEmptyI(QueueQ, 2),
       PopI(QueueQ, 2), PeekI(QueueQ, 2),
       PushI(QueueQ, Const(888), 0),
       IterI(QueueQ, 3), NextI(QueueQ, 3, 2), NextI(QueueQ, 3, 2), NextI(QueueQ, 3, 2),
       RetI(Reg(1)) >>

\* a producer on the same queue that iterates over what it leaves
QueueFeed ==
    << TrackI(QueueQ), PeekI(QueueQ, 1), PushI(QueueQ, Const(30), 0),
       IterI(QueueQ, 3), NextI(QueueQ, 3, 2), NextI(QueueQ, 3, 2), NextI(QueueQ, 3, 2),
       NextI(QueueQ, 3, 2), RetI(Reg(1)) >>

\* variable/map.rs map_operations on the keys 1, 2, 4, 5 (for 10, 20, 30, 40;
\* 3 for the inserted 25), with an iteration at the end of the closure
MapOps ==
    << TrackI(MapM), FirstKeyI(MapM, 1),
       RemoveI(MapM, 4, 0), InsertI(MapM, 3, Const(2525), 0), InsertI(MapM, 1, Const(8888), 0),
       RemoveI(MapM, 5, 0), InsertI(MapM, 4, Const(9999), 0),
       MHasI(MapM, 2, 1), MGetI(MapM, 2, 2), MHasI(MapM, 1, 1), MGetI(MapM, 1, 2),
       MHasI(MapM, 5, 1), MGetI(MapM, 5, 2), MGetMutOptI(MapM, 5, 2),
       IterI(MapM, 3), NextI(MapM, 3, 2), NextI(MapM, 3, 2), NextI(MapM, 3, 2),
       NextI(MapM, 3, 2), NextI(MapM, 3, 2), NextI(MapM, 3, 2),
       FirstKeyI(MapM, 1), RemoveI(MapM, 1, 0), FirstKeyI(MapM, 1),
       IterI(MapM, 3), NextI(MapM, 3, 2), NextI(MapM, 3, 2), NextI(MapM, 3, 2),
       NextI(MapM, 3, 2), NextI(MapM, 3, 2),
       RetI(Reg(1)) >>

\* a writer on the same map: an update in place, a new key, an iteration
MapFeed ==
    << TrackI(MapM), MGetMutI(MapM, 2, 1, 1), InsertI(MapM, 6, Const(606), 0),
       FirstKeyI(MapM, 2), MGetMutOptI(MapM, 1, 2),
       IterI(MapM, 3), NextI(MapM, 3, 2), NextI(MapM, 3, 2), NextI(MapM, 3, 2),
       NextI(MapM, 3, 2), NextI(MapM, 3, 2), NextI(MapM, 3, 2),
       RetI(Reg(1)) >>

WorkScenarios == {"chain", "group", "queue_ops", "map_ops"}

\* the closure of run r of worker t
WorkProg(s, t, r) ==
    CASE s = "chain" -> IF Odd(t) THEN ForwardBack ELSE ForwardOn
      [] s = "group" -> IF Odd(t) THEN GroupOne ELSE GroupTwo
      [] s = "queue_ops" -> IF Odd(t) THEN QueueOps ELSE QueueFeed
      [] s = "map_ops" -> IF Odd(t) THEN MapOps ELSE MapFeed
      [] s = "fuel" -> IF r % 3 = 1 THEN FuelToQueue ELSE IF r % 3 = 2 THEN FuelToMap ELSE FuelToSink

\* the contents the test gives the containers
WorkData(s) ==
    [v \in Vars |->
        CASE s = "chain" /\ v = QueueQ -> Source
          [] s = "group" /\ v = MapM -> Counters({1, 2})
          [] s = "group" /\ v = MapN -> Counters({3})
          [] s = "fuel" /\ v = CellA -> FuelTotal
          [] s = "queue_ops" /\ v = QueueQ -> << 10, 20 >>
          [] s = "map_ops" /\ v = MapM -> (1 :> 101) @@ (2 :> 202) @@ (4 :> 404) @@ (5 :> 505)
          [] v \in NewCells -> NoneVal
          [] OTHER -> IF Kind(v) = "cell" THEN 0 ELSE IF Kind(v) = "queue" THEN << >> ELSE EmptyMap]

\* the `break` of the worker loop after run r has returned val, given the
\* accumulator after the run
LoopEnds(s, r, val, a) ==
    CASE s = "chain" -> a = NItems * 2
      [] s = "group" -> TRUE
      [] s \in {"queue_ops", "map_ops"} -> TRUE
      [] s = "fuel" -> r % 3 = 0 /\ val = FuelTotal

VARIABLES
    scenario,   \* which closures the threads run
    shared,     \* [Vars -> VersionedValue]: version and data behind the RwLock
    lock,       \* [Vars -> RwLock state]: the writer (0 = none) and the readers
    pc,         \* position of each thread in Tx::run_with_options
    attempt,    \* loop counter of run_with_options
    ip,         \* position of each thread in its closure
    regs,       \* locals of the closure
    reg,        \* Tx.vars: StmVarId -> "InUse" | "Pending" | "Leaked" (InUse, its TxRef forgotten)
    txv,        \* the TxVar of every tracked variable (in the TxRef or in the slot)
    guards,     \* locked_vars: StmVarId -> "Read" | "Write" for the locks held
    output,     \* the value the closure returned
    result,     \* what Tx::run returned
    log,        \* history: the successful validations, in order
    serial,     \* history: data after running the committed closures one at a time
    serialRet,  \* history: what each committed closure returns in that serial run
    readSet,    \* history: variables the closure received a value from, this attempt
    opened,     \* history: Len(log) when the attempt opened each variable
    snap,       \* history: the VersionedValue found when each lock was acquired
    delta,      \* history: the TxVars at the start of the write phase
    appliedTo,  \* history: variables this run's commit() has written
    ended,      \* history: attempts of the run that ended in a retry, by cause
    wlog,       \* history: the calls of the attempt on its handles and slots, in order
    worker,     \* the loop of a worker thread: the number of its run, its accumulator
    code        \* the closure each thread passes to Tx::run

vars ==
    << scenario, shared, lock, pc, attempt, ip, regs, reg, txv, guards, output, result,
       log, serial, serialRet, readSet, opened, snap, delta, appliedTo, ended, wlog, worker,
       code >>

\* ------------------------------------------------------------- containers
\* VersionedValue::new_in_shared_lock
NewVersioned(d) == [version |-> 0, data |-> d]

InitData ==
    [v \in Vars |->
        CASE v = CellA -> 5
          [] v = CellB -> 17
          [] v = QueueQ -> << 220 >>
          [] v = MapM -> Put(EmptyMap, 2, 7)
          [] v \in {QueueR, QueueS} -> << >>
          [] v = MapN -> EmptyMap
          [] v \in NewCells -> NoneVal]

\* StmCell::tx_var / StmQueue::tx_var / StmMap::tx_var
OpenTx(v, sv) ==
    CASE Kind(v) = "cell" ->
            [initial_version |-> sv.version, tx_value |-> sv.data, write_tx_value |-> FALSE]
      [] Kind(v) = "queue" ->
            [initial_version |-> sv.version, front_position |-> 0, push_back_items |-> << >>]
      [] Kind(v) = "map" ->
            [initial_version |-> sv.version, tx_map |-> EmptyMap, tx_removed_keys |-> {}]

\* a lock() that takes a queue's write lock for pushed items only
IsDirtyPushesOnly(v, tv) ==
    CASE Kind(v) = "cell" -> tv.write_tx_value
      [] Kind(v) = "queue" -> tv.push_back_items # << >>
      [] Kind(v) = "map" -> ~(DOMAIN tv.tx_map = {} /\ tv.tx_removed_keys = {})

\* the condition under which TxVar::lock takes the write lock
IsDirty(v, tv) ==
    CASE Kind(v) = "cell" -> tv.write_tx_value
      [] Kind(v) = "queue" -> tv.front_position > 0 \/ tv.push_back_items # << >>
      [] Kind(v) = "map" -> ~(DOMAIN tv.tx_map = {} /\ tv.tx_removed_keys = {})

\* a validation that accepts any version not newer than the shared one
CanCommitGE(tv, sv) == tv.initial_version <= sv.version

\* a validation that passes only when the container has changed
CanCommitInverted(tv, sv) == tv.initial_version # sv.version

\* LockedTxVar::can_commit
CanCommit(tv, sv) == tv.initial_version = sv.version

\* a read_queue / read_map that does not compare the versions
ReadOkUnchecked(tv, sv) == TRUE

\* TxQueue::read_queue / TxMap::read_map: Ok iff the version is the initial one
ReadOk(tv, sv) == tv.initial_version = sv.version

DropFront(q, n) == IF n >= Len(q) THEN << >> ELSE SubSeq(q, n + 1, Len(q))

\* an append that keeps the entry the map already has for a key
MapAppendKeepsOld(m, other) ==
    [kk \in (DOMAIN m) \cup (DOMAIN other) |-> IF kk \in DOMAIN m THEN m[kk] ELSE other[kk]]

\* BTreeMap::append: every entry of `other` is moved in, overwriting
MapAppend(m, other) ==
    [kk \in (DOMAIN m) \cup (DOMAIN other) |-> IF kk \in DOMAIN other THEN other[kk] ELSE m[kk]]

\* a commit that leaves the removed keys in the shared map
MapRemoveNone(m, ks) == m

MapRemoveAll(m, ks) == [kk \in (DOMAIN m) \ ks |-> m[kk]]

\* a write branch that forgets version.increment()
CommitSharedNoBump(v, tv, sv) ==
    CASE Kind(v) = "cell" -> [version |-> sv.version, data |-> tv.tx_value]
      [] Kind(v) = "queue" ->
            [version |-> sv.version,
             data |-> DropFront(sv.data, tv.front_position) \o tv.push_back_items]
      [] Kind(v) = "map" ->
            [version |-> sv.version,
             data |-> MapAppend(MapRemoveAll(sv.data, tv.tx_removed_keys), tv.tx_map)]

\* a queue commit that puts the pushed items in front of the elements left
CommitSharedPushFront(v, tv, sv) ==
    CASE Kind(v) = "cell" -> [version |-> sv.version + 1, data |-> tv.tx_value]
      [] Kind(v) = "queue" ->
            [version |-> sv.version + 1,
             data |-> tv.push_back_items \o DropFront(sv.data, tv.front_position)]
      [] Kind(v) = "map" ->
            [version |-> sv.version + 1,
             data |-> MapAppend(MapRemoveAll(sv.data, tv.tx_removed_keys), tv.tx_map)]

\* a write branch that bumps the version and leaves the data alone
CommitSharedKeepsData(v, tv, sv) == [version |-> sv.version + 1, data |-> sv.data]

\* LockedTxCell::commit / LockedTxQueue::commit / LockedTxMap::commit, write branch:
\* the new VersionedValue
CommitShared(v, tv, sv) ==
    CASE Kind(v) = "cell" -> [version |-> sv.version + 1, data |-> tv.tx_value]
      [] Kind(v) = "queue" ->
            [version |-> sv.version + 1,
             data |-> DropFront(sv.data, tv.front_position) \o tv.push_back_items]
      [] Kind(v) = "map" ->
            [version |-> sv.version + 1,
             data |-> MapAppend(MapRemoveAll(sv.data, tv.tx_removed_keys), tv.tx_map)]

\* ... and what is left in the TxVar (swap; append drains its argument)
CommitTxVar(v, tv, sv) ==
    CASE Kind(v) = "cell" -> [tv EXCEPT !.tx_value = sv.data]
      [] Kind(v) = "queue" -> [tv EXCEPT !.push_back_items = << >>]
      [] Kind(v) = "map" -> [tv EXCEPT !.tx_map = EmptyMap]

\* ------------------------------------------------------------------ locks
Unlocked == [writer |-> 0, readers |-> {}]

\* parking_lot RwLock::read / write can be granted
CanRead(v) == lock[v].writer = 0
CanWrite(v) == lock[v].writer = 0 /\ lock[v].readers = {}

\* a lock() that takes the read lock whatever the delta
AcquireReadOnly(l, t, mode) == [l EXCEPT !.readers = @ \cup {t}]

Acquire(l, t, mode) ==
    IF mode = "Write" THEN [l EXCEPT !.writer = t] ELSE [l EXCEPT !.readers = @ \cup {t}]


\* a guard whose drop leaves the RwLock as it is
ReleaseNothing(l, t) == l

Release(l, t) ==
    [writer |-> IF l.writer = t THEN 0 ELSE l.writer, readers |-> l.readers \ {t}]

Holds(t, v) == lock[v].writer = t \/ t \in lock[v].readers

\* ------------------------------------------------- the serial yardstick
\* Running a closure alone, directly on the data (no buffering, no versions).
RECURSIVE SerialRun(_, _, _, _)
SerialRun(prog, i, data, rg) ==
    LET I == prog[i]
        skip == I.guard # 0 /\ rg[I.guard] = NoneVal
        x == Eval(I.e, rg)
        d == data[I.var]
    IN  IF I.op = "ret" THEN [data |-> data, ret |-> x]
        ELSE IF skip \/ I.op \in {"track", "drop", "abort"} THEN SerialRun(prog, i + 1, data, rg)
        ELSE IF I.op = "get" THEN SerialRun(prog, i + 1, data, [rg EXCEPT ![I.dst] = d])
        ELSE IF I.op = "set" THEN SerialRun(prog, i + 1, [data EXCEPT ![I.var] = x], rg)
        ELSE IF I.op = "push" THEN SerialRun(prog, i + 1, [data EXCEPT ![I.var] = Append(d, x)], rg)
        ELSE IF I.op = "pop" THEN
            IF d = << >> THEN SerialRun(prog, i + 1, data, [rg EXCEPT ![I.dst] = NoneVal])
            ELSE SerialRun(prog, i + 1, [data EXCEPT ![I.var] = Tail(d)], [rg EXCEPT ![I.dst] = Head(d)])
        ELSE IF I.op = "insert" THEN SerialRun(prog, i + 1, [data EXCEPT ![I.var] = Put(d, I.key, x)], rg)
        ELSE IF I.op = "remove" THEN SerialRun(prog, i + 1, [data EXCEPT ![I.var] = Del(d, I.key)], rg)
        ELSE IF I.op = "peek" THEN
            SerialRun(prog, i + 1, data, [rg EXCEPT ![I.dst] = IF d = << >> THEN NoneVal ELSE Head(d)])
        ELSE IF I.op = "mhas" THEN
            SerialRun(prog, i + 1, data, [rg EXCEPT ![I.dst] = IF I.key \in DOMAIN d THEN 1 ELSE 0])
        ELSE \* mget, mget_mut_opt: the entry of the key, or None
            SerialRun(prog, i + 1, data,
                      [rg EXCEPT ![I.dst] = IF I.key \in DOMAIN d THEN d[I.key] ELSE NoneVal])

\* ------------------------------------------------------------------- Init
NoResult == [kind |-> "none", val |-> 0]

\* the locals of a closure when it is entered
NoRegs == << 0, 0, 0, 0 >>

Init ==
    /\ scenario \in Scenarios
    /\ shared = [v \in Vars |-> NewVersioned(InitData[v])]
    /\ lock = [v \in Vars |-> Unlocked]
    /\ pc = [t \in Threads |-> IF t \in Runs(scenario) THEN "start" ELSE "done"]
    /\ attempt = [t \in Threads |-> 0]
    /\ ip = [t \in Threads |-> 1]
    /\ regs = [t \in Threads |-> NoRegs]
    /\ reg = [t \in Threads |-> EmptyMap]
    /\ txv = [t \in Threads |-> EmptyMap]
    /\ guards = [t \in Threads |-> EmptyMap]
    /\ output = [t \in Threads |-> 0]
    /\ result = [t \in Threads |-> NoResult]
    /\ log = << >>
    /\ serial = InitData
    /\ serialRet = [t \in Threads |-> 0]
    /\ readSet = [t \in Threads |-> {}]
    /\ opened = [t \in Threads |-> EmptyMap]
    /\ snap = [t \in Threads |-> EmptyMap]
    /\ delta = [t \in Threads |-> EmptyMap]
    /\ appliedTo = [t \in Threads |-> {}]
    /\ ended = [t \in Threads |-> [cu |-> 0, vf |-> 0]]
    /\ wlog = [t \in Threads |-> << >>]
    /\ worker = [t \in Threads |-> [round |-> 1, acc |-> 0]]
    /\ code = [t \in Threads |-> Prog(scenario, t)]

\* --------------------------------------------------------------- actions
\* the closure the thread is running
Code(t) == code[t]

\* the instruction the closure is at; a var or key field -i is local i
Cur(t) ==
    LET I == Code(t)[ip[t]] IN
    [I EXCEPT !.var = IF @ < 0 THEN regs[t][0 - @] ELSE @,
              !.key = IF @ < 0 THEN regs[t][0 - @] ELSE @]

Skipped(t) ==
    LET g == Cur(t).guard IN
    \/ g > 0 /\ regs[t][g] = NoneVal
    \/ g < 0 /\ regs[t][-g] # NoneVal

At(t, op) == pc[t] = "closure" /\ Cur(t).op = op /\ ~Skipped(t)

\* the handle of the instruction's variable is alive in the closure
HasRef(t) == Cur(t).var \in DOMAIN reg[t] /\ reg[t][Cur(t).var] = "InUse"

ghostsCommit == << log, serial, serialRet, snap, delta, appliedTo, ended >>

\* the capture list of a step of the closure that touches only its own TxVar
closureFrame == << scenario, worker, code, shared, lock, attempt, reg, guards, output, result, opened, ghostsCommit >>

\* a runner that builds one Tx before the loop and reuses it in every attempt
DropTxKeepsVars(t) ==
    /\ reg' = [reg EXCEPT ![t] = [v \in DOMAIN @ |-> "Pending"]]
    /\ txv' = txv
    /\ ip' = [ip EXCEPT ![t] = 1]
    /\ regs' = [regs EXCEPT ![t] = NoRegs]
    /\ wlog' = [wlog EXCEPT ![t] = << >>]

\* the Tx of the attempt goes out of scope
DropTx(t) ==
    /\ reg' = [reg EXCEPT ![t] = EmptyMap]
    /\ txv' = [txv EXCEPT ![t] = EmptyMap]
    /\ ip' = [ip EXCEPT ![t] = 1]
    /\ regs' = [regs EXCEPT ![t] = NoRegs]
    /\ wlog' = [wlog EXCEPT ![t] = << >>]

\* the record of a call in the history of the attempt
Note(t, op, val) ==
    wlog' = [wlog EXCEPT ![t] = Append(@, [op |-> op, var |-> Cur(t).var, key |-> Cur(t).key, val |-> val])]

\* run_with_options: one more iteration of `for attempt in 0..attempts`
StartAttempt(t) ==
    /\ pc[t] = "start"
    /\ attempt[t] < Attempts(scenario, t)
    /\ attempt' = [attempt EXCEPT ![t] = @ + 1]
    /\ pc' = [pc EXCEPT ![t] = "closure"]
    /\ DropTx(t)
    /\ readSet' = [readSet EXCEPT ![t] = {}]
    /\ opened' = [opened EXCEPT ![t] = EmptyMap]
    /\ snap' = [snap EXCEPT ![t] = EmptyMap]
    /\ delta' = [delta EXCEPT ![t] = EmptyMap]
    /\ UNCHANGED << scenario, worker, code, shared, lock, guards, output, result, log, serial, serialRet, appliedTo, ended >>

\* a loop that can stop one iteration short of `attempts`
GiveUpEarly(t) ==
    /\ pc[t] = "start"
    /\ attempt[t] >= Attempts(scenario, t) - 1
    /\ pc' = [pc EXCEPT ![t] = "done"]
    /\ result' = [result EXCEPT ![t] =
                    [kind |-> "TooManyTransactionRetryAttempts", val |-> Attempts(scenario, t)]]
    /\ UNCHANGED << scenario, worker, code, shared, lock, attempt, ip, regs, reg, txv, guards, output,
                    readSet, opened, ghostsCommit, wlog >>

\* run_with_options: the loop is over, Err(TooManyTransactionRetryAttempts)
GiveUp(t) ==
    /\ pc[t] = "start"
    /\ attempt[t] >= Attempts(scenario, t)
    /\ pc' = [pc EXCEPT ![t] = "done"]
    /\ result' = [result EXCEPT ![t] =
                    [kind |-> "TooManyTransactionRetryAttempts", val |-> Attempts(scenario, t)]]
    /\ UNCHANGED << scenario, worker, code, shared, lock, attempt, ip, regs, reg, txv, guards, output,
                    readSet, opened, ghostsCommit, wlog >>

\* `if let Some(..)` of the closure not taken
Skip(t) ==
    /\ pc[t] = "closure"
    /\ Skipped(t)
    /\ ip' = [ip EXCEPT ![t] = @ + 1]
    /\ UNCHANGED << pc, regs, txv, readSet, closureFrame, wlog >>

\* a registry that never finds a slot in use
SlotNeverInUse(t, v) == FALSE

\* Tx::track, Entry::Occupied: mem::replace(entry, InUse) gives back InUse
SlotInUse(t, v) == reg[t][v] \in {"InUse", "Leaked"}

\* a track that opens the container again whatever the slot holds
ReopenedTxVar(t, v) == OpenTx(v, shared[v])

\* Tx::track, Entry::Occupied: the TxVar taken out of TrackedVar::Pending
PendingTxVar(t, v) == txv[t][v]

\* Tx::track
Track(t) ==
    LET v == Cur(t).var IN
    /\ At(t, "track")
    /\ IF v \notin DOMAIN reg[t]
       THEN \* Entry::Vacant: InUse, var.tx_var() under the read lock
            /\ CanRead(v)
            /\ reg' = [reg EXCEPT ![t] = Put(@, v, "InUse")]
            /\ txv' = [txv EXCEPT ![t] = Put(@, v, OpenTx(v, shared[v]))]
            /\ opened' = [opened EXCEPT ![t] = Put(@, v, Len(log))]
            /\ Note(t, "track", v)
            /\ ip' = [ip EXCEPT ![t] = @ + 1]
            /\ UNCHANGED << pc, regs, result >>
       ELSE IF ~SlotInUse(t, v)
       THEN /\ reg' = [reg EXCEPT ![t][v] = "InUse"]
            /\ txv' = [txv EXCEPT ![t][v] = PendingTxVar(t, v)]
            /\ Note(t, "track", v)
            /\ ip' = [ip EXCEPT ![t] = @ + 1]
            /\ UNCHANGED << pc, regs, opened, result >>
       ELSE IF Cur(t).try
       THEN \* Err(TransactionVariableIsInUse) leaves the closure and the runner
            /\ pc' = [pc EXCEPT ![t] = "done"]
            /\ result' = [result EXCEPT ![t] = [kind |-> "TransactionVariableIsInUse", val |-> v]]
            /\ DropTx(t)
            /\ UNCHANGED opened
       ELSE \* the closure looks at the Err and goes on
            /\ Note(t, "in_use", v)
            /\ ip' = [ip EXCEPT ![t] = @ + 1]
            /\ UNCHANGED << pc, regs, reg, txv, opened, result >>
    /\ UNCHANGED << scenario, worker, code, shared, lock, attempt, guards, output, readSet, ghostsCommit >>

\* TxRef::drop
DropRef(t) ==
    /\ At(t, "drop")
    /\ HasRef(t)
    /\ reg' = [reg EXCEPT ![t][Cur(t).var] = "Pending"]
    /\ Note(t, "drop", Cur(t).var)
    /\ ip' = [ip EXCEPT ![t] = @ + 1]
    /\ UNCHANGED << scenario, worker, code, shared, lock, pc, attempt, regs, txv, guards, output, result,
                    readSet, opened, ghostsCommit >>

\* std::mem::forget of a TxRef: the handle leaves the closure without
\* TxRef::drop, the slot stays TrackedVar::InUse
Forget(t) ==
    /\ At(t, "forget")
    /\ HasRef(t)
    /\ reg' = [reg EXCEPT ![t][Cur(t).var] = "Leaked"]
    /\ Note(t, "forget", Cur(t).var)
    /\ ip' = [ip EXCEPT ![t] = @ + 1]
    /\ UNCHANGED << scenario, worker, code, shared, lock, pc, attempt, regs, txv, guards, output, result,
                    readSet, opened, ghostsCommit >>


\* a runner that hands the closure's Err(ConcurrentUpdate) to the caller
RetryEscapes(t) ==
    /\ pc' = [pc EXCEPT ![t] = "done"]
    /\ ended' = [ended EXCEPT ![t].cu = @ + 1]
    /\ result' = [result EXCEPT ![t] = [kind |-> "ConcurrentUpdate", val |-> 0]]
    /\ DropTx(t)

\* the closure returns Err(ConcurrentUpdate): `continue` in run_with_options
Retry(t) ==
    /\ pc' = [pc EXCEPT ![t] = "start"]
    /\ ended' = [ended EXCEPT ![t].cu = @ + 1]
    /\ UNCHANGED result
    /\ DropTx(t)

\* a get that compares the versions under the read lock, as the reads of a
\* queue do
CellGetChecksVersion(t) ==
    LET v == Cur(t).var IN
    /\ At(t, "get")
    /\ HasRef(t)
    /\ CanRead(v)
    /\ IF ReadOk(txv[t][v], shared[v])
       THEN /\ regs' = [regs EXCEPT ![t][Cur(t).dst] = txv[t][v].tx_value]
            /\ readSet' = [readSet EXCEPT ![t] = @ \cup {v}]
            /\ ip' = [ip EXCEPT ![t] = @ + 1]
            /\ UNCHANGED << pc, reg, txv, result, ended, wlog >>
       ELSE /\ Retry(t)
            /\ UNCHANGED readSet
    /\ UNCHANGED << scenario, worker, code, shared, lock, attempt, guards, output, opened,
                    log, serial, serialRet, snap, delta, appliedTo >>

\* TxCell::get
CellGet(t) ==
    LET v == Cur(t).var IN
    /\ At(t, "get")
    /\ HasRef(t)
    /\ regs' = [regs EXCEPT ![t][Cur(t).dst] = txv[t][v].tx_value]
    /\ readSet' = [readSet EXCEPT ![t] = @ \cup {v}]
    /\ ip' = [ip EXCEPT ![t] = @ + 1]
    /\ UNCHANGED << pc, txv, closureFrame, wlog >>


\* a get_mut that marks the cell written only when the value is changed
CellGetMutMarksChange(t) ==
    LET v == Cur(t).var
        x == Eval(Cur(t).e, regs[t])
        new == IF Cur(t).op = "add" THEN txv[t][v].tx_value + x ELSE x
    IN
    /\ At(t, "set") \/ At(t, "add")
    /\ HasRef(t)
    /\ txv' = [txv EXCEPT ![t][v] =
                 [@ EXCEPT !.write_tx_value = @ \/ new # txv[t][v].tx_value, !.tx_value = new]]
    /\ Note(t, "set", new)
    /\ ip' = [ip EXCEPT ![t] = @ + 1]
    /\ UNCHANGED << pc, regs, readSet, closureFrame >>

\* TxCell::get_mut, followed by the assignment (or `+=`) through the reference
CellGetMut(t) ==
    LET v == Cur(t).var
        x == Eval(Cur(t).e, regs[t])
        new == IF Cur(t).op = "add" THEN txv[t][v].tx_value + x ELSE x
    IN
    /\ At(t, "set") \/ At(t, "add")
    /\ HasRef(t)
    /\ txv' = [txv EXCEPT ![t][v] = [@ EXCEPT !.write_tx_value = TRUE, !.tx_value = new]]
    /\ Note(t, "set", new)
    /\ ip' = [ip EXCEPT ![t] = @ + 1]
    /\ UNCHANGED << pc, regs, readSet, closureFrame >>

\* a take that hands out the value and leaves it in the cell
CellTakeLeavesValue(t) ==
    LET v == Cur(t).var IN
    /\ At(t, "take")
    /\ HasRef(t)
    /\ regs' = [regs EXCEPT ![t][Cur(t).dst] = txv[t][v].tx_value]
    /\ txv' = [txv EXCEPT ![t][v] = [@ EXCEPT !.write_tx_value = TRUE]]
    /\ readSet' = [readSet EXCEPT ![t] = @ \cup {v}]
    /\ Note(t, "set", txv[t][v].tx_value)
    /\ ip' = [ip EXCEPT ![t] = @ + 1]
    /\ UNCHANGED << pc, closureFrame >>

\* TxCell::take: mem::take(self.get_mut())
CellTake(t) ==
    LET v == Cur(t).var IN
    /\ At(t, "take")
    /\ HasRef(t)
    /\ regs' = [regs EXCEPT ![t][Cur(t).dst] = txv[t][v].tx_value]
    /\ txv' = [txv EXCEPT ![t][v] = [@ EXCEPT !.write_tx_value = TRUE, !.tx_value = 0]]
    /\ readSet' = [readSet EXCEPT ![t] = @ \cup {v}]
    /\ Note(t, "set", 0)
    /\ ip' = [ip EXCEPT ![t] = @ + 1]
    /\ UNCHANGED << pc, closureFrame >>

\* a local of the closure is computed, or drawn by the random generator
Local(t) ==
    /\ At(t, "let") \/ At(t, "rand")
    /\ \E x \in IF Cur(t).op = "let" THEN {Eval(Cur(t).e, regs[t])}
                 ELSE Cur(t).key..Eval(Cur(t).e, regs[t]) :
          regs' = [regs EXCEPT ![t][Cur(t).dst] = x]
    /\ ip' = [ip EXCEPT ![t] = @ + 1]
    /\ UNCHANGED << pc, txv, readSet, closureFrame, wlog >>

\* the closure goes round its `while let` / `for` loop, or leaves it
Jump(t) ==
    /\ At(t, "jump")
    /\ ip' = [ip EXCEPT ![t] = Cur(t).key]
    /\ UNCHANGED << pc, regs, txv, readSet, closureFrame, wlog >>

\* StmCell::new inside the closure: StmVarId::new() hands out the next id
StmCellNew(t) ==
    /\ At(t, "new_cell")
    /\ \E v \in NewCells :
          /\ shared[v].data = NoneVal
          /\ \A w \in NewCells : w < v => shared[w].data # NoneVal
          /\ shared' = [shared EXCEPT ![v] = NewVersioned(Eval(Cur(t).e, regs[t]))]
          /\ regs' = [regs EXCEPT ![t][Cur(t).dst] = v]
    /\ ip' = [ip EXCEPT ![t] = @ + 1]
    /\ UNCHANGED << scenario, worker, code, lock, pc, attempt, reg, txv, guards, output, result,
                    readSet, opened, ghostsCommit, wlog >>

\* TxQueue::iter: an Iter with cursor 0; TxMap::iter: an Iter with cursor
\* Bound::Unbounded (NoneVal)
NewIter(t) ==
    /\ At(t, "iter")
    /\ HasRef(t)
    /\ regs' = [regs EXCEPT ![t][Cur(t).dst] = IF Kind(Cur(t).var) = "queue" THEN 0 ELSE NoneVal]
    /\ Note(t, "iter", 0)
    /\ ip' = [ip EXCEPT ![t] = @ + 1]
    /\ UNCHANGED << pc, txv, readSet, closureFrame >>

\* TxQueue::push
QueuePush(t) ==
    LET v == Cur(t).var IN
    /\ At(t, "push")
    /\ HasRef(t)
    /\ txv' = [txv EXCEPT ![t][v].push_back_items = Append(@, Eval(Cur(t).e, regs[t]))]
    /\ Note(t, "push", Eval(Cur(t).e, regs[t]))
    /\ ip' = [ip EXCEPT ![t] = @ + 1]
    /\ UNCHANGED << pc, regs, readSet, closureFrame >>

\* a pop that reads the first pushed item and leaves it in push_back_items
PopTxKeepsPushed(tv, sv) ==
    IF ~ReadOk(tv, sv) THEN [err |-> TRUE, item |-> NoneVal, tv |-> tv]
    ELSE IF tv.front_position < Len(sv.data)
    THEN [err |-> FALSE, item |-> sv.data[tv.front_position + 1],
          tv |-> [tv EXCEPT !.front_position = @ + 1]]
    ELSE IF tv.push_back_items # << >>
    THEN [err |-> FALSE, item |-> Head(tv.push_back_items), tv |-> tv]
    ELSE [err |-> FALSE, item |-> NoneVal, tv |-> tv]

\* TxQueue::pop on the working copy tv and the shared VersionedValue sv: the
\* error of read_queue, the item and the working copy after the call
PopTx(tv, sv) ==
    IF ~ReadOk(tv, sv) THEN [err |-> TRUE, item |-> NoneVal, tv |-> tv]
    ELSE IF tv.front_position < Len(sv.data)
    THEN [err |-> FALSE, item |-> sv.data[tv.front_position + 1],
          tv |-> [tv EXCEPT !.front_position = @ + 1]]
    ELSE IF tv.push_back_items # << >>
    THEN [err |-> FALSE, item |-> Head(tv.push_back_items),
          tv |-> [tv EXCEPT !.push_back_items = Tail(@)]]
    ELSE [err |-> FALSE, item |-> NoneVal, tv |-> tv]

\* TxQueue::pop (read_queue under the read lock)
QueuePop(t) ==
    LET v == Cur(t).var
        R == PopTx(txv[t][v], shared[v])
    IN
    /\ At(t, "pop")
    /\ HasRef(t)
    /\ CanRead(v)
    /\ IF ~R.err
       THEN /\ regs' = [regs EXCEPT ![t][Cur(t).dst] = R.item]
            /\ txv' = [txv EXCEPT ![t][v] = R.tv]
            /\ IF R.item = NoneVal THEN UNCHANGED wlog ELSE Note(t, "pop", R.item)
            /\ readSet' = [readSet EXCEPT ![t] = @ \cup {v}]
            /\ ip' = [ip EXCEPT ![t] = @ + 1]
            /\ UNCHANGED << pc, reg, result, ended >>
       ELSE /\ Retry(t)
            /\ UNCHANGED readSet
    /\ UNCHANGED << scenario, worker, code, shared, lock, attempt, guards, output, opened,
                    log, serial, serialRet, snap, delta, appliedTo >>

\* a peek that looks at the shared queue only
PeekItemSharedOnly(tv, q) ==
    IF tv.front_position < Len(q) THEN q[tv.front_position + 1] ELSE NoneVal

\* TxQueue::peek: queue.data.get(front_position), or else push_back_items.front()
PeekItem(tv, q) ==
    IF tv.front_position < Len(q) THEN q[tv.front_position + 1]
    ELSE IF tv.push_back_items # << >> THEN Head(tv.push_back_items)
    ELSE NoneVal

\* TxQueue::peek (read_queue under the read lock)
QueuePeek(t) ==
    LET v == Cur(t).var
        tv == txv[t][v]
    IN
    /\ At(t, "peek")
    /\ HasRef(t)
    /\ CanRead(v)
    /\ IF ReadOk(tv, shared[v])
       THEN /\ regs' = [regs EXCEPT ![t][Cur(t).dst] = PeekItem(tv, shared[v].data)]
            /\ readSet' = [readSet EXCEPT ![t] = @ \cup {v}]
            /\ ip' = [ip EXCEPT ![t] = @ + 1]
            /\ UNCHANGED << pc, reg, txv, result, ended, wlog >>
       ELSE /\ Retry(t)
            /\ UNCHANGED readSet
    /\ UNCHANGED << scenario, worker, code, shared, lock, attempt, guards, output, opened,
                    log, serial, serialRet, snap, delta, appliedTo >>

\* TxQueue::is_empty
IsEmpty(tv, q) ==
    IF tv.front_position < Len(q) THEN FALSE ELSE tv.push_back_items = << >>

\* TxQueue::is_empty (true is 1, false is 0)
QueueIsEmpty(t) ==
    LET v == Cur(t).var
        tv == txv[t][v]
    IN
    /\ At(t, "is_empty")
    /\ HasRef(t)
    /\ CanRead(v)
    /\ IF ReadOk(tv, shared[v])
       THEN /\ regs' = [regs EXCEPT ![t][Cur(t).dst] = IF IsEmpty(tv, shared[v].data) THEN 1 ELSE 0]
            /\ readSet' = [readSet EXCEPT ![t] = @ \cup {v}]
            /\ ip' = [ip EXCEPT ![t] = @ + 1]
            /\ UNCHANGED << pc, reg, txv, result, ended, wlog >>
       ELSE /\ Retry(t)
            /\ UNCHANGED readSet
    /\ UNCHANGED << scenario, worker, code, shared, lock, attempt, guards, output, opened,
                    log, serial, serialRet, snap, delta, appliedTo >>

\* an iterator that looks the cursor position up in push_back_items as it is
QueueIterItemNoOffset(tv, q, cursor) ==
    LET position == cursor + tv.front_position IN
    IF position < Len(q) THEN q[position + 1]
    ELSE IF position < Len(tv.push_back_items)
    THEN tv.push_back_items[position + 1]
    ELSE NoneVal

\* queue::Iter::next, the item: queue.data.get(position), or else
\* push_back_items.get(position - queue_len), with position = cursor + front_position
QueueIterItem(tv, q, cursor) ==
    LET position == cursor + tv.front_position IN
    IF position < Len(q) THEN q[position + 1]
    ELSE IF position - Len(q) < Len(tv.push_back_items)
    THEN tv.push_back_items[position - Len(q) + 1]
    ELSE NoneVal

\* queue::Iter::next: dst receives the item; the cursor local advances on Some
QueueIterNext(t) ==
    LET v == Cur(t).var
        c == Code(t)[ip[t]].key
        tv == txv[t][v]
        item == QueueIterItem(tv, shared[v].data, regs[t][c])
    IN
    /\ At(t, "next")
    /\ Kind(v) = "queue"
    /\ HasRef(t)
    /\ CanRead(v)
    /\ IF ReadOk(tv, shared[v])
       THEN /\ regs' = [regs EXCEPT ![t] =
                          IF item = NoneVal THEN [@ EXCEPT ![Cur(t).dst] = NoneVal]
                          ELSE [@ EXCEPT ![c] = @ + 1, ![Cur(t).dst] = item]]
            /\ wlog' = [wlog EXCEPT ![t] =
                          Append(@, [op |-> "next", var |-> v, key |-> 0, val |-> item])]
            /\ readSet' = [readSet EXCEPT ![t] = @ \cup {v}]
            /\ ip' = [ip EXCEPT ![t] = @ + 1]
            /\ UNCHANGED << pc, reg, txv, result, ended >>
       ELSE /\ Retry(t)
            /\ UNCHANGED readSet
    /\ UNCHANGED << scenario, worker, code, shared, lock, attempt, guards, output, opened,
                    log, serial, serialRet, snap, delta, appliedTo >>

\* TxMap::insert
MapInsert(t) ==
    LET v == Cur(t).var IN
    /\ At(t, "insert")
    /\ HasRef(t)
    /\ txv' = [txv EXCEPT ![t][v] =
                 [@ EXCEPT !.tx_removed_keys = @ \ {Cur(t).key},
                           !.tx_map = Put(@, Cur(t).key, Eval(Cur(t).e, regs[t]))]]
    /\ Note(t, "insert", Eval(Cur(t).e, regs[t]))
    /\ ip' = [ip EXCEPT ![t] = @ + 1]
    /\ UNCHANGED << pc, regs, readSet, closureFrame >>

\* TxMap::remove
MapRemove(t) ==
    LET v == Cur(t).var IN
    /\ At(t, "remove")
    /\ HasRef(t)
    /\ txv' = [txv EXCEPT ![t][v] =
                 [@ EXCEPT !.tx_map = Del(@, Cur(t).key),
                           !.tx_removed_keys = @ \cup {Cur(t).key}]]
    /\ Note(t, "remove", NoneVal)
    /\ ip' = [ip EXCEPT ![t] = @ + 1]
    /\ UNCHANGED << pc, regs, readSet, closureFrame >>

\* the key is in neither tx_map nor tx_removed_keys: the call goes on to read_map
ReachesShared(tv, k) == k \notin DOMAIN tv.tx_map /\ k \notin tv.tx_removed_keys

\* TxMap::get: tx_map, then tx_removed_keys, then the shared map m
GetValue(tv, m, k) ==
    IF k \in DOMAIN tv.tx_map THEN tv.tx_map[k]
    ELSE IF k \in tv.tx_removed_keys THEN NoneVal
    ELSE IF k \in DOMAIN m THEN m[k] ELSE NoneVal

\* TxMap::contains_key
ContainsKey(tv, m, k) ==
    IF k \in DOMAIN tv.tx_map THEN TRUE
    ELSE IF k \in tv.tx_removed_keys THEN FALSE
    ELSE k \in DOMAIN m


\* a get_mut that goes to the shared map without looking at tx_removed_keys
GetMutTxIgnoresTombstones(tv, sv, k) ==
    IF k \in DOMAIN tv.tx_map THEN [err |-> FALSE, val |-> tv.tx_map[k], tv |-> tv]
    ELSE IF ~ReadOk(tv, sv) THEN [err |-> TRUE, val |-> NoneVal, tv |-> tv]
    ELSE IF k \in DOMAIN sv.data
    THEN [err |-> FALSE, val |-> sv.data[k], tv |-> [tv EXCEPT !.tx_map = Put(@, k, sv.data[k])]]
    ELSE [err |-> FALSE, val |-> NoneVal, tv |-> tv]

\* TxMap::get_mut: the value behind the reference and the working copy after
\* the call (a shared entry is copied into tx_map)
GetMutTx(tv, sv, k) ==
    IF k \in DOMAIN tv.tx_map THEN [err |-> FALSE, val |-> tv.tx_map[k], tv |-> tv]
    ELSE IF k \in tv.tx_removed_keys THEN [err |-> FALSE, val |-> NoneVal, tv |-> tv]
    ELSE IF ~ReadOk(tv, sv) THEN [err |-> TRUE, val |-> NoneVal, tv |-> tv]
    ELSE IF k \in DOMAIN sv.data
    THEN [err |-> FALSE, val |-> sv.data[k], tv |-> [tv EXCEPT !.tx_map = Put(@, k, sv.data[k])]]
    ELSE [err |-> FALSE, val |-> NoneVal, tv |-> tv]

\* TxMap::first_key: the smaller of the first shared key not in
\* tx_removed_keys and the first key of tx_map
FirstKey(tv, m) ==
    LET ms == {k \in DOMAIN m : k \notin tv.tx_removed_keys}
        ts == DOMAIN tv.tx_map
    IN  IF ms = {} /\ ts = {} THEN NoneVal
        ELSE IF ts = {} THEN Min(ms)
        ELSE IF ms = {} THEN Min(ts)
        ELSE IF Min(ms) < Min(ts) THEN Min(ms) ELSE Min(ts)

\* TxMap::get
MapGet(t) ==
    LET v == Cur(t).var
        k == Cur(t).key
        tv == txv[t][v]
    IN
    /\ At(t, "mget")
    /\ HasRef(t)
    /\ IF ~ReachesShared(tv, k)
       THEN /\ regs' = [regs EXCEPT ![t][Cur(t).dst] = GetValue(tv, shared[v].data, k)]
            /\ ip' = [ip EXCEPT ![t] = @ + 1]
            /\ UNCHANGED << pc, reg, txv, readSet, result, ended, wlog >>
       ELSE /\ CanRead(v)
            /\ IF ReadOk(tv, shared[v])
               THEN /\ regs' = [regs EXCEPT ![t][Cur(t).dst] = GetValue(tv, shared[v].data, k)]
                    /\ readSet' = [readSet EXCEPT ![t] = @ \cup {v}]
                    /\ ip' = [ip EXCEPT ![t] = @ + 1]
                    /\ UNCHANGED << pc, reg, txv, result, ended, wlog >>
               ELSE /\ Retry(t)
                    /\ UNCHANGED readSet
    /\ UNCHANGED << scenario, worker, code, shared, lock, attempt, guards, output, opened,
                    log, serial, serialRet, snap, delta, appliedTo >>

\* TxMap::get_mut, then the closure's unwrap() and its update through the reference
MapGetMut(t) ==
    LET v == Cur(t).var
        k == Cur(t).key
        tv == txv[t][v]
        R == GetMutTx(tv, shared[v], k)
        unwrap == Cur(t).op = "mget_mut"
        add == Eval(Cur(t).e, regs[t])
    IN
    /\ At(t, "mget_mut") \/ At(t, "mget_mut_opt")
    /\ HasRef(t)
    /\ ReachesShared(tv, k) => CanRead(v)
    /\ IF R.err
       THEN /\ Retry(t)
            /\ UNCHANGED readSet
       ELSE IF unwrap /\ R.val = NoneVal
       THEN \* Option::unwrap panics
            /\ pc' = [pc EXCEPT ![t] = "done"]
            /\ result' = [result EXCEPT ![t] = [kind |-> "Panic", val |-> 0]]
            /\ DropTx(t)
            /\ UNCHANGED << readSet, ended >>
       ELSE /\ regs' = [regs EXCEPT ![t][Cur(t).dst] = R.val]
            /\ txv' = [txv EXCEPT ![t][v] =
                          IF unwrap THEN [R.tv EXCEPT !.tx_map[k] = @ + add] ELSE R.tv]
            /\ readSet' = [readSet EXCEPT ![t] = IF ReachesShared(tv, k) THEN @ \cup {v} ELSE @]
            /\ ip' = [ip EXCEPT ![t] = @ + 1]
            /\ UNCHANGED << pc, reg, result, ended, wlog >>
    /\ UNCHANGED << scenario, worker, code, shared, lock, attempt, guards, output, opened,
                    log, serial, serialRet, snap, delta, appliedTo >>

\* TxMap::first_key (read_map under the read lock, whatever the working copy)
MapFirstKey(t) ==
    LET v == Cur(t).var
        tv == txv[t][v]
    IN
    /\ At(t, "first_key")
    /\ HasRef(t)
    /\ CanRead(v)
    /\ IF ReadOk(tv, shared[v])
       THEN /\ regs' = [regs EXCEPT ![t][Cur(t).dst] = FirstKey(tv, shared[v].data)]
            /\ readSet' = [readSet EXCEPT ![t] = @ \cup {v}]
            /\ ip' = [ip EXCEPT ![t] = @ + 1]
            /\ UNCHANGED << pc, reg, txv, result, ended, wlog >>
       ELSE /\ Retry(t)
            /\ UNCHANGED readSet
    /\ UNCHANGED << scenario, worker, code, shared, lock, attempt, guards, output, opened,
                    log, serial, serialRet, snap, delta, appliedTo >>

\* an iterator that does not skip the shared keys in tx_removed_keys
MapIterKeySeesRemoved(tv, m, c) ==
    LET ms == {k \in DOMAIN m : k > c}
        ts == {k \in DOMAIN tv.tx_map : k > c}
    IN  IF ms \cup ts = {} THEN NoneVal ELSE Min(ms \cup ts)

\* map::Iter::next, the smaller of the first key of the shared map after the
\* cursor that is not in tx_removed_keys and the first key of tx_map after it
\* (tx_map on equal keys); NoneVal when there is none
MapIterKey(tv, m, c) ==
    LET ms == {k \in DOMAIN m : k > c /\ k \notin tv.tx_removed_keys}
        ts == {k \in DOMAIN tv.tx_map : k > c}
    IN  IF ms \cup ts = {} THEN NoneVal ELSE Min(ms \cup ts)

MapIterValue(tv, m, k) == IF k \in DOMAIN tv.tx_map THEN tv.tx_map[k] ELSE m[k]

\* map::Iter::next: the cursor local becomes Excluded(key), dst receives the value
MapIterNext(t) ==
    LET v == Cur(t).var
        c == Code(t)[ip[t]].key
        tv == txv[t][v]
        k == MapIterKey(tv, shared[v].data, regs[t][c])
    IN
    /\ At(t, "next")
    /\ Kind(v) = "map"
    /\ HasRef(t)
    /\ CanRead(v)
    /\ IF ReadOk(tv, shared[v])
       THEN /\ regs' = [regs EXCEPT ![t] =
                          IF k = NoneVal THEN [@ EXCEPT ![Cur(t).dst] = NoneVal]
                          ELSE [@ EXCEPT ![c] = k,
                                         ![Cur(t).dst] = MapIterValue(tv, shared[v].data, k)]]
            /\ wlog' = [wlog EXCEPT ![t] =
                          Append(@, [op |-> "next", var |-> v, key |-> k,
                                     val |-> IF k = NoneVal THEN NoneVal
                                             ELSE MapIterValue(tv, shared[v].data, k)])]
            /\ readSet' = [readSet EXCEPT ![t] = @ \cup {v}]
            /\ ip' = [ip EXCEPT ![t] = @ + 1]
            /\ UNCHANGED << pc, reg, txv, result, ended >>
       ELSE /\ Retry(t)
            /\ UNCHANGED readSet
    /\ UNCHANGED << scenario, worker, code, shared, lock, attempt, guards, output, opened,
                    log, serial, serialRet, snap, delta, appliedTo >>

\* TxMap::contains_key (true is 1, false is 0)
MapContainsKey(t) ==
    LET v == Cur(t).var
        k == Cur(t).key
        tv == txv[t][v]
        has == IF ContainsKey(tv, shared[v].data, k) THEN 1 ELSE 0
    IN
    /\ At(t, "mhas")
    /\ HasRef(t)
    /\ IF ~ReachesShared(tv, k)
       THEN /\ regs' = [regs EXCEPT ![t][Cur(t).dst] = has]
            /\ ip' = [ip EXCEPT ![t] = @ + 1]
            /\ UNCHANGED << pc, reg, txv, readSet, result, ended, wlog >>
       ELSE /\ CanRead(v)
            /\ IF ReadOk(tv, shared[v])
               THEN /\ regs' = [regs EXCEPT ![t][Cur(t).dst] = has]
                    /\ readSet' = [readSet EXCEPT ![t] = @ \cup {v}]
                    /\ ip' = [ip EXCEPT ![t] = @ + 1]
                    /\ UNCHANGED << pc, reg, txv, result, ended, wlog >>
               ELSE /\ Retry(t)
                    /\ UNCHANGED readSet
    /\ UNCHANGED << scenario, worker, code, shared, lock, attempt, guards, output, opened,
                    log, serial, serialRet, snap, delta, appliedTo >>

\* the closure returns Ok(output); its TxRefs are dropped; tx.commit() starts
Return(t) ==
    /\ At(t, "ret")
    /\ output' = [output EXCEPT ![t] = Eval(Cur(t).e, regs[t])]
    /\ reg' = [reg EXCEPT ![t] = [v \in DOMAIN @ |-> IF @[v] = "Leaked" THEN "Leaked" ELSE "Pending"]]
    /\ pc' = [pc EXCEPT ![t] = "locking"]
    /\ UNCHANGED << scenario, worker, code, shared, lock, attempt, ip, regs, txv, guards, result,
                    readSet, opened, ghostsCommit, wlog >>

\* a runner that commits the buffered writes before it looks at the closure's error
AbortCommits(t) ==
    /\ At(t, "abort")
    /\ pc' = [pc EXCEPT ![t] = "done"]
    /\ result' = [result EXCEPT ![t] = [kind |-> "TransactionAbort", val |-> 0]]
    /\ shared' = [v \in Vars |->
                    IF v \in DOMAIN txv[t] /\ IsDirty(v, txv[t][v])
                    THEN CommitShared(v, txv[t][v], shared[v]) ELSE shared[v]]
    /\ appliedTo' = [appliedTo EXCEPT ![t] = {v \in DOMAIN txv[t] : IsDirty(v, txv[t][v])}]
    /\ DropTx(t)
    /\ UNCHANGED << scenario, worker, code, lock, attempt, guards, output, readSet, opened, log, serial,
                    serialRet, snap, delta, ended >>

\* a runner that treats every error of the closure as a reason to try again
AbortRetries(t) ==
    /\ At(t, "abort")
    /\ pc' = [pc EXCEPT ![t] = "start"]
    /\ DropTx(t)
    /\ UNCHANGED << scenario, worker, code, shared, lock, attempt, guards, output, result, readSet, opened, ghostsCommit >>

\* Tx::abort_with: the closure returns Err(TransactionAbort), `result?` returns it
Abort(t) ==
    /\ At(t, "abort")
    /\ pc' = [pc EXCEPT ![t] = "done"]
    /\ result' = [result EXCEPT ![t] = [kind |-> "TransactionAbort", val |-> 0]]
    /\ DropTx(t)
    /\ UNCHANGED << scenario, worker, code, shared, lock, attempt, guards, output, readSet, opened, ghostsCommit >>

\* Tx::commit, one step of the map over vars.values_mut(): tx_var.lock()
ToLock(t) == (DOMAIN reg[t]) \ (DOMAIN guards[t])

\* a lock() that takes the write lock whatever the delta
LockModeAlwaysWrite(v, tv) == "Write"

LockMode(v, tv) == IF IsDirty(v, tv) THEN "Write" ELSE "Read"

\* a commit that takes the locks in the order the closure first tracked the variables
NextLockInTrackOrder(t) ==
    LET prog == Code(t)
        first(v) == Min({i \in DOMAIN prog : prog[i].op = "track" /\ prog[i].var = v})
    IN  CHOOSE v \in ToLock(t) : \A w \in ToLock(t) : first(v) <= first(w)

\* vars.values_mut() of the BTreeMap<StmVarId, _>: ascending StmVarId
NextLock(t) == Min(ToLock(t))

\* the thread waits for a RwLock another thread holds
Blocked(t) ==
    \/ /\ pc[t] = "locking"
       /\ ToLock(t) # {}
       /\ IF LockMode(NextLock(t), txv[t][NextLock(t)]) = "Write"
          THEN ~CanWrite(NextLock(t)) ELSE ~CanRead(NextLock(t))
    \/ /\ pc[t] = "closure"
       /\ ~Skipped(t)
       /\ \/ Cur(t).op = "track" /\ Cur(t).var \notin DOMAIN reg[t]
          \/ Cur(t).op \in {"pop", "mget"}
       /\ ~CanRead(Cur(t).var)

LockVar(t) ==
    /\ pc[t] = "locking"
    /\ ToLock(t) # {}
    /\ LET v == NextLock(t)
           mode == LockMode(v, txv[t][v])
       IN  /\ reg[t][v] = "Pending"
           /\ IF mode = "Write" THEN CanWrite(v) ELSE CanRead(v)
           /\ lock' = [lock EXCEPT ![v] = Acquire(@, t, mode)]
           /\ guards' = [guards EXCEPT ![t] = Put(@, v, mode)]
           /\ snap' = [snap EXCEPT ![t] = Put(@, v, shared[v])]
    /\ UNCHANGED << scenario, worker, code, shared, pc, attempt, ip, regs, reg, txv, output, result,
                    log, serial, serialRet, readSet, opened, delta, appliedTo, ended, wlog >>

\* the data a non-empty delta leaves in the container, stated from the
\* container's point of view (cell: the transaction's value; queue: the
\* elements after the popped prefix, then the pushed ones; map: the entries
\* not removed, overridden by the inserted ones)
DeltaApplied(v, tv, d) ==
    CASE Kind(v) = "cell" -> tv.tx_value
      [] Kind(v) = "queue" ->
            LET rest == IF Len(d) > tv.front_position THEN Len(d) - tv.front_position ELSE 0
            IN  [i \in 1..(rest + Len(tv.push_back_items)) |->
                    IF i <= rest THEN d[tv.front_position + i] ELSE tv.push_back_items[i - rest]]
      [] Kind(v) = "map" ->
            [k \in ((DOMAIN d) \ tv.tx_removed_keys) \cup (DOMAIN tv.tx_map) |->
                IF k \in DOMAIN tv.tx_map THEN tv.tx_map[k] ELSE d[k]]

\* Tx::commit, the loop over can_commit()
\* a validation that looks only at the variables the attempt wrote
AllCanCommitDirtyOnly(t) ==
    \A v \in DOMAIN guards[t] : guards[t][v] = "Write" => CanCommit(txv[t][v], shared[v])

AllCanCommit(t) == \A v \in DOMAIN guards[t] : CanCommit(txv[t][v], shared[v])

LogEntry(t) ==
    [t |-> t,
     iv |-> [v \in DOMAIN txv[t] |-> txv[t][v].initial_version],
     w |-> {v \in DOMAIN txv[t] : IsDirty(v, txv[t][v])},
     d |-> [v \in {u \in DOMAIN txv[t] : IsDirty(u, txv[t][u])} |->
                DeltaApplied(v, txv[t][v], shared[v].data)]]

\* Tx::commit, the map over vars.values_mut() meets TrackedVar::InUse:
\* panic!("BUG: there must be no `TxRef` around for this transaction"); the
\* guards taken so far are dropped by the unwinding
CommitPanics(t) ==
    /\ pc[t] = "locking"
    /\ ToLock(t) # {}
    /\ reg[t][NextLock(t)] = "Leaked"
    /\ pc' = [pc EXCEPT ![t] = "done"]
    /\ result' = [result EXCEPT ![t] = [kind |-> "Panic", val |-> 0]]
    /\ lock' = [v \in Vars |-> IF v \in DOMAIN guards[t] THEN Release(lock[v], t) ELSE lock[v]]
    /\ guards' = [guards EXCEPT ![t] = EmptyMap]
    /\ DropTx(t)
    /\ UNCHANGED << scenario, worker, code, shared, attempt, output, readSet, opened,
                    log, serial, serialRet, snap, delta, appliedTo, ended >>

Validate(t) ==
    /\ pc[t] = "locking"
    /\ ToLock(t) = {}
    /\ IF AllCanCommit(t)
       THEN /\ pc' = [pc EXCEPT ![t] = "write"]
            /\ log' = Append(log, LogEntry(t))
            /\ IF scenario \in Scenarios
               THEN /\ serial' = SerialRun(Code(t), 1, serial, NoRegs).data
                    /\ serialRet' = [serialRet EXCEPT ![t] =
                                        SerialRun(Code(t), 1, serial, NoRegs).ret]
               ELSE UNCHANGED << serial, serialRet >>
            /\ delta' = [delta EXCEPT ![t] = txv[t]]
            /\ UNCHANGED << lock, guards, ip, regs, reg, txv, ended, wlog >>
       ELSE \* return CommitStatus::Fail drops locked_vars and the Tx
            /\ pc' = [pc EXCEPT ![t] = "start"]
            /\ lock' = [v \in Vars |-> IF v \in DOMAIN guards[t] THEN Release(lock[v], t) ELSE lock[v]]
            /\ guards' = [guards EXCEPT ![t] = EmptyMap]
            /\ ended' = [ended EXCEPT ![t].vf = @ + 1]
            /\ DropTx(t)
            /\ UNCHANGED << log, serial, serialRet, delta >>
    /\ UNCHANGED << scenario, worker, code, shared, attempt, output, result, readSet, opened, snap, appliedTo >>

\* Tx::commit, one iteration of `for mut var in locked_vars { var.commit() }`:
\* commit() of the variable, then the LockedTxVar is dropped with its guard
CommitVar(t) ==
    /\ pc[t] = "write"
    /\ DOMAIN guards[t] # {}
    /\ LET v == Min(DOMAIN guards[t]) IN
           /\ IF guards[t][v] = "Write"
              THEN /\ shared' = [shared EXCEPT ![v] = CommitShared(v, txv[t][v], @)]
                   /\ txv' = [txv EXCEPT ![t][v] = CommitTxVar(v, @, shared[v])]
                   /\ appliedTo' = [appliedTo EXCEPT ![t] = @ \cup {v}]
              ELSE UNCHANGED << shared, txv, appliedTo >>
           /\ lock' = [lock EXCEPT ![v] = Release(@, t)]
           /\ guards' = [guards EXCEPT ![t] = Del(@, v)]
    /\ UNCHANGED << scenario, worker, code, pc, attempt, ip, regs, reg, output, result,
                    log, serial, serialRet, readSet, opened, snap, delta, ended, wlog >>

\* CommitStatus::Success => return Ok(output)
ReturnOk(t) ==
    /\ pc[t] = "write"
    /\ DOMAIN guards[t] = {}
    /\ pc' = [pc EXCEPT ![t] = "done"]
    /\ result' = [result EXCEPT ![t] = [kind |-> "Ok", val |-> output[t]]]
    /\ DropTx(t)
    /\ UNCHANGED << scenario, worker, code, shared, lock, attempt, guards, output, readSet, opened, ghostsCommit >>

\* one step of the thread that performs run t
Step(t) ==
    \/ StartAttempt(t)
    \/ GiveUp(t)
    \/ Skip(t)
    \/ Track(t)
    \/ DropRef(t)
    \/ CellGet(t)
    \/ CellGetMut(t)
    \/ QueuePush(t)
    \/ QueuePop(t)
    \/ QueuePeek(t)
    \/ MapInsert(t)
    \/ MapRemove(t)
    \/ MapGet(t)
    \/ MapGetMut(t)
    \/ MapContainsKey(t)
    \/ Forget(t)
    \/ Return(t)
    \/ Abort(t)
    \/ LockVar(t)
    \/ CommitPanics(t)
    \/ Validate(t)
    \/ CommitVar(t)
    \/ ReturnOk(t)

Next == \E t \in Threads : Step(t)

Spec == Init /\ [][Next]_vars

\* every thread that can take a step is scheduled again
FairSpec == Spec /\ \A t \in Threads : WF_vars(Step(t))

\* ------------------------------------------------- the worker threads
\* the worker adds the result of the run to its accumulator and, unless its
\* loop breaks, calls Tx::run again (mixed_containers takes
\* TooManyTransactionRetryAttempts for Ok(default))
Again(t) ==
    /\ pc[t] = "done"
    /\ \/ result[t].kind = "Ok"
       \/ scenario = "fuel" /\ result[t].kind = "TooManyTransactionRetryAttempts"
    /\ worker[t].round < MaxRuns
    /\ LET val == IF result[t].kind = "Ok" THEN result[t].val ELSE 0 IN
           /\ ~LoopEnds(scenario, worker[t].round, val, worker[t].acc + val)
           /\ worker' = [worker EXCEPT ![t] = [round |-> @.round + 1, acc |-> @.acc + val]]
    /\ code' = [code EXCEPT ![t] = WorkProg(scenario, t, worker[t].round + 1)]
    /\ pc' = [pc EXCEPT ![t] = "start"]
    /\ attempt' = [attempt EXCEPT ![t] = 0]
    /\ result' = [result EXCEPT ![t] = NoResult]
    /\ output' = [output EXCEPT ![t] = 0]
    /\ appliedTo' = [appliedTo EXCEPT ![t] = {}]
    /\ ended' = [ended EXCEPT ![t] = [cu |-> 0, vf |-> 0]]
    /\ UNCHANGED << scenario, shared, lock, ip, regs, reg, txv, guards,
                    log, serial, serialRet, readSet, opened, snap, delta, wlog >>

\* the state after the test of a scenario in S has built its containers
Setup(S) ==
    /\ scenario \in S
    /\ shared = [v \in Vars |-> NewVersioned(WorkData(scenario)[v])]
    /\ lock = [v \in Vars |-> Unlocked]
    /\ pc = [t \in Threads |-> IF t \in Runs(scenario) THEN "start" ELSE "done"]
    /\ attempt = [t \in Threads |-> 0]
    /\ ip = [t \in Threads |-> 1]
    /\ regs = [t \in Threads |-> NoRegs]
    /\ reg = [t \in Threads |-> EmptyMap]
    /\ txv = [t \in Threads |-> EmptyMap]
    /\ guards = [t \in Threads |-> EmptyMap]
    /\ output = [t \in Threads |-> 0]
    /\ result = [t \in Threads |-> NoResult]
    /\ log = << >>
    /\ serial = WorkData(scenario)
    /\ serialRet = [t \in Threads |-> 0]
    /\ readSet = [t \in Threads |-> {}]
    /\ opened = [t \in Threads |-> EmptyMap]
    /\ snap = [t \in Threads |-> EmptyMap]
    /\ delta = [t \in Threads |-> EmptyMap]
    /\ appliedTo = [t \in Threads |-> {}]
    /\ ended = [t \in Threads |-> [cu |-> 0, vf |-> 0]]
    /\ wlog = [t \in Threads |-> << >>]
    /\ worker = [t \in Threads |-> [round |-> 1, acc |-> 0]]
    /\ code = [t \in Threads |-> WorkProg(scenario, t, 1)]

WorkInit == Setup(WorkScenarios)

\* one step of worker thread t
WorkStep(t) ==
    \/ StartAttempt(t)
    \/ Skip(t)
    \/ Track(t)
    \/ DropRef(t)
    \/ QueuePush(t)
    \/ QueuePop(t)
    \/ QueuePeek(t)
    \/ QueueIsEmpty(t)
    \/ MapInsert(t)
    \/ MapRemove(t)
    \/ MapGet(t)
    \/ MapGetMut(t)
    \/ MapContainsKey(t)
    \/ MapFirstKey(t)
    \/ NewIter(t)
    \/ QueueIterNext(t)
    \/ MapIterNext(t)
    \/ Return(t)
    \/ LockVar(t)
    \/ Validate(t)
    \/ CommitVar(t)
    \/ ReturnOk(t)
    \/ Again(t)

WorkNext == \E t \in Threads : WorkStep(t)

\* the tests whose threads call Tx::run in a loop
WorkSpec == WorkInit /\ [][WorkNext]_vars

\* ------------------------------------------------- mixed_containers
FuelInit == Setup({"fuel"})

\* one step of a worker of mixed_containers
FuelStep(t) ==
    \/ StartAttempt(t)
    \/ GiveUp(t)
    \/ Skip(t)
    \/ Local(t)
    \/ Jump(t)
    \/ Track(t)
    \/ DropRef(t)
    \/ CellGet(t)
    \/ CellGetMut(t)
    \/ CellTake(t)
    \/ StmCellNew(t)
    \/ QueuePush(t)
    \/ QueuePop(t)
    \/ MapInsert(t)
    \/ MapGetMut(t)
    \/ MapContainsKey(t)
    \/ NewIter(t)
    \/ MapIterNext(t)
    \/ Return(t)
    \/ LockVar(t)
    \/ Validate(t)
    \/ CommitVar(t)
    \/ ReturnOk(t)
    \/ Again(t)

FuelNext == \E t \in Threads : FuelStep(t)

FuelSpec == FuelInit /\ [][FuelNext]_vars

TypeOK ==
    /\ \A t \in Threads : pc[t] \in {"start", "closure", "locking", "write", "done"}
    /\ \A v \in Vars : lock[v].writer \in Threads \cup {0} /\ lock[v].readers \subseteq Threads

\* ------------------------------------------------------ history operators
AllDone == \A t \in Threads : pc[t] = "done"

\* the variables whose delta was non-empty when the write phase started
DirtyVars(t) == {v \in DOMAIN delta[t] : IsDirty(v, delta[t][v])}

\* some thread is in its write phase and has not yet applied its delta to v
WritePending(v) ==
    \E t \in Threads : pc[t] = "write" /\ v \in DirtyVars(t) /\ v \notin appliedTo[t]

\* the version of v after the first k successful validations have been applied
VerAt(k, v) == Cardinality({i \in 1..k : v \in log[i].w})

\* the index of t's successful validation in the log (0 = none)
LogIndex(t) == IF \E i \in 1..Len(log) : log[i].t = t
               THEN CHOOSE i \in 1..Len(log) : log[i].t = t ELSE 0

ErrorKinds == {"TooManyTransactionRetryAttempts", "TransactionAbort", "TransactionVariableIsInUse"}

\* ------------------------------------------------------------------ claims

\* C1: the data of every container and the value returned by every committed
\* transaction are those of running the committed closures one at a time (in
\* the order of their validations); in two_transactions_add_2_cells each
\* return value is the final value of the written cell and a + b is 49 or 61.
C1_Serializable ==
    /\ \A v \in Vars : ~WritePending(v) => shared[v].data = serial[v]
    /\ \A t \in Threads : result[t].kind = "Ok" => result[t].val = serialRet[t]
    /\ (scenario = "add" /\ AllDone) =>
          /\ result[1].kind = "Ok" /\ result[1].val = shared[CellA].data
          /\ result[2].kind = "Ok" /\ result[2].val = shared[CellB].data
          /\ shared[CellA].data + shared[CellB].data \in {49, 61}

\* both closures committed, tx_2 first and tx_1 after a retry
C1_Witness ==
    /\ scenario = "add" /\ AllDone
    /\ attempt[1] = 2
    /\ shared[CellA].data + shared[CellB].data = 49

CommitFailStep(t) == pc[t] = "locking" /\ pc'[t] = "start"

CommitVarStep(t, v) == pc[t] = "write" /\ v \in DOMAIN guards[t] /\ v \notin DOMAIN guards'[t]

CommitSuccessStep(t) == pc[t] = "write" /\ pc'[t] = "done"

\* C2: a commit attempt is all-or-nothing.  A failing validation changes no
\* container and the run has written nothing; in a successful commit the
\* commit() of a variable with a non-empty delta takes the container from the
\* state found under the lock to that state with the delta applied and the
\* version one higher, the commit() of the others changes nothing, and when
\* Success is returned every variable with a non-empty delta has been written.
C2_AllOrNothing ==
    [][\A t \in Threads :
        /\ CommitFailStep(t) =>
              /\ shared' = shared
              /\ appliedTo[t] = {}
              /\ \A v \in DOMAIN guards[t] : shared[v] = snap[t][v]
        /\ \A v \in Vars : CommitVarStep(t, v) =>
              /\ shared[v] = snap[t][v]
              /\ shared'[v] = IF v \in DirtyVars(t)
                              THEN [version |-> snap[t][v].version + 1,
                                    data |-> DeltaApplied(v, delta[t][v], snap[t][v].data)]
                              ELSE snap[t][v]
              /\ \A u \in Vars \ {v} : shared'[u] = shared[u]
        /\ CommitSuccessStep(t) => appliedTo[t] = DirtyVars(t) /\ DOMAIN guards[t] = {}
      ]_vars

\* one run has committed both of its cells, another has had an attempt refused
C2_Witness ==
    /\ scenario = "move"
    /\ \E t1, t2 \in Threads :
          /\ result[t1].kind = "Ok" /\ appliedTo[t1] = {CellA, CellB}
          /\ pc[t2] = "start" /\ attempt[t2] = 1 /\ appliedTo[t2] = {}

\* C3: no attempt passes validation after opening one variable written by a
\* committed transaction T in its post-T state and another variable written by
\* T in its pre-T state.
C3_NoPartialObservation ==
    \A i, j \in 1..Len(log) :
        i # j =>
            \A u, v \in log[i].w \cap DOMAIN log[j].iv :
                ~(log[j].iv[u] >= log[i].iv[u] + 1 /\ log[j].iv[v] < log[i].iv[v] + 1)

\* T wrote both cells; an attempt that opened CellB before and CellA after T's
\* commit was refused, and its retry then committed on the post-T state
C3_Witness ==
    /\ scenario = "move"
    /\ Len(log) = 2
    /\ log[1].w = {CellA, CellB}
    /\ attempt[log[2].t] = 2
    /\ log[2].iv[CellA] = 1 /\ log[2].iv[CellB] = 1

InAttempt(t) == pc[t] \in {"closure", "locking", "write"}

\* C5 as stated: all values an attempt has received come from one snapshot of
\* the shared state, i.e. there is a number k of commits such that every
\* variable read was opened in its state after exactly the first k commits.
C5_ReadsFromOneSnapshot ==
    \A t \in Threads :
        InAttempt(t) =>
            \E k \in 0..Len(log) :
                \A v \in readSet[t] : txv[t][v].initial_version = VerAt(k, v)

\* C5 amended: the values received from one variable are those of its state
\* when the attempt opened it, and an attempt that passes validation has
\* opened every variable it tracks in the state left by the commits validated
\* before it (one snapshot); attempts that read across a commit exist, and
\* they are refused.
C5_ValidatedFromOneSnapshot ==
    /\ \A t \in Threads :
          InAttempt(t) =>
              \A v \in DOMAIN txv[t] : txv[t][v].initial_version = VerAt(opened[t][v], v)
    /\ \A i \in 1..Len(log) :
          \A v \in DOMAIN log[i].iv : log[i].iv[v] = VerAt(i - 1, v)

\* a closure holds CellA from after and CellB from before a commit that wrote
\* both, and has read both
C5_Witness ==
    \E t \in Threads :
        /\ pc[t] = "closure"
        /\ readSet[t] = {CellA, CellB}
        /\ Len(log) = 1 /\ log[1].w = {CellA, CellB}
        /\ txv[t][CellA].initial_version = 1
        /\ txv[t][CellB].initial_version = 0

\* C6: in the write phase (validation passed, checked with all locks held) the
\* initial_version of every tracked variable, written or not, is the version
\* found under its lock, and no other transaction committed a write to the
\* variable between its open in this attempt and the validation.
C6_CommitOnlyIfUnchanged ==
    \A t \in Threads :
        pc[t] = "write" =>
            /\ DOMAIN snap[t] = DOMAIN delta[t]
            /\ \A v \in DOMAIN delta[t] :
                  /\ delta[t][v].initial_version = snap[t][v].version
                  /\ \A j \in (opened[t][v] + 1)..(LogIndex(t) - 1) : v \notin log[j].w

\* a retried attempt is in its write phase with a variable it only read
C6_Witness ==
    \E t \in Threads :
        /\ pc[t] = "write"
        /\ attempt[t] = 2
        /\ \E v \in DOMAIN delta[t] : v \notin DirtyVars(t) /\ delta[t][v].initial_version = 1

\* C7: with every thread doing read x, read y, x := x + y, y := 0 the sum seen
\* by a committing transaction and the sum of the two cells, whenever no write
\* phase is under way, is the initial sum.
C7_SumConserved ==
    scenario \in {"move", "budget"} =>
        /\ \A t \in Threads : pc[t] = "write" \/ result[t].kind = "Ok" =>
              output[t] = InitData[CellA] + InitData[CellB]
        /\ (~WritePending(CellA) /\ ~WritePending(CellB)) =>
              shared[CellA].data + shared[CellB].data = InitData[CellA] + InitData[CellB]

\* every thread has committed, one of them after a refused attempt
C7_Witness ==
    /\ scenario = "move" /\ AllDone
    /\ \A t \in Runs(scenario) : result[t].kind = "Ok"
    /\ \E t \in Threads : attempt[t] = 2
    /\ shared[CellA].version = NThreads
    /\ shared[CellA].data = 22 /\ shared[CellB].data = 0

\* C8: two attempts of different transactions, each of which opened a variable
\* the other one wrote before the other's commit, never both pass validation.
C8_NoWriteSkew ==
    \A i, j \in 1..Len(log) :
        i # j =>
            \A x \in log[j].w \cap DOMAIN log[i].iv, y \in log[i].w \cap DOMAIN log[j].iv :
                ~(log[i].iv[x] <= log[j].iv[x] /\ log[j].iv[y] <= log[i].iv[y])

\* T1 (reads x, writes y) committed; T2 (reads y, writes x), which had opened
\* both cells before that commit, was refused and is about to retry
C8_Witness ==
    /\ scenario = "skew"
    /\ Len(log) = 1
    /\ \E t \in Threads :
          /\ log[1].t # t
          /\ pc[t] = "start" /\ attempt[t] = 1
          /\ opened[t] = [v \in {CellA, CellB} |-> 0]

\* C9: a run that returned an error has written no container and is absent
\* from the commit history; when all runs are over, data and versions are
\* those produced by the committed runs alone.
C9_NoEffectOnError ==
    /\ \A t \in Threads :
          result[t].kind \in ErrorKinds => appliedTo[t] = {} /\ LogIndex(t) = 0
    /\ AllDone =>
          \A v \in Vars : shared[v].data = serial[v] /\ shared[v].version = VerAt(Len(log), v)

\* a run gave up after a refused attempt with buffered writes
C9_Witness ==
    /\ scenario = "budget" /\ AllDone
    /\ \E t \in Threads :
          /\ result[t].kind = "TooManyTransactionRetryAttempts"
          /\ attempt[t] = 1
    /\ Len(log) = NThreads - 1

\* C10: the version of a container changes only by +1, in a step of a write
\* phase whose thread holds the write lock and had a non-empty delta for it;
\* whenever the write lock is free the version is the number of successful
\* commits that had a non-empty delta for the container.
C10_VersionCountsWrites ==
    /\ [][\A v \in Vars :
            shared'[v] # shared[v] =>
               /\ shared'[v].version = shared[v].version + 1
               /\ \E t \in Threads :
                     /\ lock[v].writer = t
                     /\ pc[t] = "write"
                     /\ v \in DirtyVars(t)
         ]_vars
    /\ [](\A v \in Vars : lock[v].writer = 0 => shared[v].version = VerAt(Len(log), v))

\* two commits tracked a container, one wrote it and the other only read it:
\* its version is 1
C10_Witness ==
    /\ Len(log) = 2
    /\ \E v \in Vars :
          /\ lock[v].writer = 0
          /\ shared[v].version = 1
          /\ \E i \in 1..2 : v \in (DOMAIN log[i].iv) \ log[i].w

C12_ConcurrentUpdateNeverReturned ==
    /\ [](\A t \in Threads : result[t].kind # "ConcurrentUpdate")
    /\ [][\A t \in Threads :
            /\ ended'[t].cu # ended[t].cu => pc'[t] = "start" /\ result'[t] = NoResult
            /\ pc[t] = "start" /\ pc'[t] # "start" =>
                 IF attempt[t] < Attempts(scenario, t)
                 THEN pc'[t] = "closure" /\ attempt'[t] = attempt[t] + 1 /\ result'[t] = NoResult
                 ELSE pc'[t] = "done" /\ result'[t].kind = "TooManyTransactionRetryAttempts"]_vars

\* a read found the container changed, and the run is in its next attempt
C12_Witness ==
    \E t \in Threads : ended[t].cu > 0 /\ pc[t] = "closure" /\ attempt[t] > 1

\* the closure of run t is at a call that makes it return Err(kind)
ClosureFails(t, kind) ==
    /\ pc[t] = "closure" /\ ~Skipped(t)
    /\ IF kind = "TransactionAbort"
       THEN Cur(t).op = "abort"
       ELSE Cur(t).op = "track" /\ Cur(t).try /\ HasRef(t)

\* C13: when the closure returns TransactionVariableIsInUse or
\* TransactionAbort the run returns that error in the same step, whatever
\* is left of the budget: no lock is taken, nothing is written or logged,
\* and the finished run never takes another step.
C13_ClosureErrorReturnedAtOnce ==
    /\ [][\A t \in Threads : \A kind \in {"TransactionVariableIsInUse", "TransactionAbort"} :
            /\ ClosureFails(t, kind) /\ << pc[t], ip[t] >>' # << pc[t], ip[t] >> =>
                 /\ pc'[t] = "done"
                 /\ result'[t] = [kind |-> kind,
                                  val |-> IF kind = "TransactionAbort" THEN 0 ELSE Cur(t).var]
                 /\ UNCHANGED << shared, lock, guards, log, attempt >>
            /\ result'[t].kind = kind /\ result[t].kind # kind => ClosureFails(t, kind)
            /\ pc[t] = "done" => pc'[t] = "done" /\ result'[t] = result[t] /\ attempt'[t] = attempt[t]]_vars
    /\ [](\A t \in Threads :
            result[t].kind \in {"TransactionVariableIsInUse", "TransactionAbort"} =>
                /\ guards[t] = EmptyMap /\ \A v \in Vars : ~Holds(t, v)
                /\ appliedTo[t] = {} /\ \A k \in DOMAIN log : log[k].t # t)

\* both kinds of error have been returned, each in the first of ten attempts
C13_Witness ==
    \E t, u \in Threads :
        /\ result[t] = [kind |-> "TransactionAbort", val |-> 0]
        /\ result[u] = [kind |-> "TransactionVariableIsInUse", val |-> CellA]
        /\ attempt[t] = 1 /\ attempt[u] = 1 /\ Attempts(scenario, t) = DefaultAttempts

\* attempts of run t that ended in ConcurrentUpdate or in a failed validation
FailedAttempts(t) == ended[t].cu + ended[t].vf

\* C14: a run invokes its closure at most `attempts` times; it returns
\* TooManyTransactionRetryAttempts exactly when `attempts` attempts have
\* each ended in ConcurrentUpdate or in a failed validation, and the error
\* carries the configured `attempts`.
C14_TooManyExactlyAfterAttempts ==
    \A t \in Threads :
        /\ attempt[t] <= Attempts(scenario, t)
        /\ FailedAttempts(t) =
              IF \/ pc[t] \in {"closure", "locking", "write"}
                 \/ result[t].kind \in {"Ok", "TransactionAbort", "TransactionVariableIsInUse", "Panic"}
              THEN attempt[t] - 1 ELSE attempt[t]
        /\ pc[t] = "done" =>
              (result[t].kind = "TooManyTransactionRetryAttempts" <=> FailedAttempts(t) = Attempts(scenario, t))
        /\ result[t].kind = "TooManyTransactionRetryAttempts" =>
              result[t].val = Attempts(scenario, t) /\ attempt[t] = Attempts(scenario, t)

\* a run whose every attempt ended in ConcurrentUpdate has given up
C14_Witness ==
    \E t \in Threads :
        /\ result[t] = [kind |-> "TooManyTransactionRetryAttempts", val |-> Attempts(scenario, t)]
        /\ ended[t].cu = Attempts(scenario, t) /\ ended[t].cu > 0

\* C15: K runs that conflict on the same variables, each with a budget of
\* at least K attempts, all return Ok under fair scheduling (none gives up),
\* and the containers then hold what the K closures produce when run one
\* after another in the order of their commits.
C15_EnoughAttemptsAllCommit ==
    /\ <>AllDone
    /\ [](scenario \in {"tight", "move", "swap"} =>
            /\ \A t \in Threads : result[t].kind # "TooManyTransactionRetryAttempts"
            /\ AllDone =>
                  /\ \A t \in Runs(scenario) : result[t] = [kind |-> "Ok", val |-> serialRet[t]]
                  /\ Len(log) = Cardinality(Runs(scenario))
                  /\ \A v \in Vars : shared[v].data = serial[v])

\* all K runs have committed, one of them in the last attempt of its budget of K
C15_Witness ==
    /\ scenario = "tight"
    /\ AllDone
    /\ \A t \in Runs(scenario) : result[t].kind = "Ok"
    /\ \E t \in Threads : attempt[t] = NThreads /\ FailedAttempts(t) = NThreads - 1

\* validations of other runs that succeeded so far
CommitsOfOthers(t) == Cardinality({k \in DOMAIN log : log[k].t # t})

\* C16 as stated: K conflicting runs with a budget below K, all finished:
\* at least one of them has returned TooManyTransactionRetryAttempts.
C16_SomeRunGivesUp ==
    scenario = "budget" /\ AllDone =>
        \E t \in Threads : result[t].kind = "TooManyTransactionRetryAttempts"

\* C16: K conflicting runs with a budget below K: an attempt fails only
\* against a commit of another run, so a run gives up only after as many
\* commits of other runs as its budget, and at least one run commits.
C16_GiveUpOnlyAgainstCommits ==
    /\ \A t \in Threads :
          /\ FailedAttempts(t) <= CommitsOfOthers(t)
          /\ result[t].kind = "TooManyTransactionRetryAttempts" =>
                CommitsOfOthers(t) >= Attempts(scenario, t)
    /\ scenario = "budget" /\ AllDone => \E t \in Threads : result[t].kind = "Ok"

\* with a budget of one attempt, one run committed and another gave up
\* after its only validation failed
C16_Witness ==
    /\ scenario = "budget"
    /\ AllDone
    /\ \E t, u \in Threads :
          /\ result[t].kind = "TooManyTransactionRetryAttempts" /\ ended[t].vf = 1
          /\ result[u].kind = "Ok"

\* how many calls of the given kind on v the attempt of t has made so far
Calls(t, op, v) == Cardinality({i \in DOMAIN wlog[t] : wlog[t][i].op = op /\ wlog[t][i].var = v})

\* handles of v that track has returned to the closure of t and that are neither
\* dropped nor forgotten
LiveHandles(t, v) == Calls(t, "track", v) - Calls(t, "drop", v) - Calls(t, "forget", v)

\* C17: inside an attempt, track(v) while a handle of v is alive returns
\* TransactionVariableIsInUse(v.var_id) and changes nothing: the slot stays
\* InUse, the working copy behind the live handle is untouched and the
\* closure can go on using it; a Tx never has two live handles of a variable.
C17_SecondTrackRefused ==
    /\ [][\A t \in Threads :
            LET v == Cur(t).var IN
            pc[t] = "closure" /\ ~Skipped(t) /\ Cur(t).op = "track" /\ LiveHandles(t, v) = 1
              /\ << pc[t], ip[t] >>' # << pc[t], ip[t] >> =>
                IF Cur(t).try
                THEN pc'[t] = "done" /\ result'[t] = [kind |-> "TransactionVariableIsInUse", val |-> v]
                ELSE /\ wlog'[t] = Append(wlog[t], [op |-> "in_use", var |-> v, key |-> 0, val |-> v])
                     /\ reg'[t] = reg[t] /\ reg[t][v] = "InUse"
                     /\ txv'[t] = txv[t]
                     /\ pc'[t] = "closure" /\ ip'[t] = ip[t] + 1]_vars
    /\ [](\A t \in Threads : pc[t] = "closure" =>
            \A v \in Vars :
                /\ LiveHandles(t, v) \in {0, 1}
                /\ LiveHandles(t, v) = 1 <=> v \in DOMAIN reg[t] /\ reg[t][v] = "InUse")

\* the second track of CellA was refused with the cell's id, and the closure
\* has since read its own write of 1 through the handle it kept
C17_Witness ==
    \E t \in Threads :
        /\ scenario = "reopen" /\ pc[t] = "closure"
        /\ Calls(t, "in_use", CellA) = 1
        /\ ip[t] = 5 /\ regs[t][1] = 1 /\ LiveHandles(t, CellA) = 1

\* the closure of t is at a track of a variable whose handle it has dropped
AtRetrack(t) ==
    /\ pc[t] = "closure" /\ ~Skipped(t) /\ Cur(t).op = "track"
    /\ Cur(t).var \in DOMAIN reg[t] /\ reg[t][Cur(t).var] = "Pending"

\* C18: once the handle of v is dropped, track(v) in the same attempt
\* succeeds and hands back the very working copy the dropped handle left:
\* its uncommitted mutations and the initial_version of the first open,
\* with no new read of the shared container.
C18_RetrackSameWorkingCopy ==
    /\ [][\A t \in Threads :
            LET v == Cur(t).var IN
            /\ AtRetrack(t) /\ << pc[t], ip[t] >>' # << pc[t], ip[t] >> =>
                 /\ pc'[t] = "closure" /\ ip'[t] = ip[t] + 1 /\ result'[t] = NoResult
                 /\ reg'[t][v] = "InUse"
                 /\ txv'[t] = txv[t]
                 /\ opened'[t] = opened[t]
            /\ pc[t] = "closure" /\ ~Skipped(t) /\ Cur(t).op = "drop"
                 /\ << pc[t], ip[t] >>' # << pc[t], ip[t] >> =>
                 txv'[t] = txv[t] /\ reg'[t][v] = "Pending"]_vars
    /\ [](\A t \in Threads : pc[t] = "closure" =>
            \A v \in DOMAIN txv[t] : txv[t][v].initial_version = VerAt(opened[t][v], v))

\* the cell was written by another run after the first open; the handle
\* tracked again after the drop still shows the closure's own write of 1
\* and the version of the first open
C18_Witness ==
    \E t \in Threads :
        /\ scenario = "reopen" /\ pc[t] = "closure" /\ ip[t] = 8
        /\ Calls(t, "drop", CellA) = 1 /\ Calls(t, "track", CellA) = 2
        /\ regs[t][2] = 1
        /\ txv[t][CellA].initial_version = 0 /\ shared[CellA].version = 1

\* the index in the history of the attempt of t of its latest call among ops
\* on key k of v (0 = no such call)
LastCall(t, v, k, ops) ==
    LET I == {i \in DOMAIN wlog[t] :
                wlog[t][i].var = v /\ wlog[t][i].key = k /\ wlog[t][i].op \in ops}
    IN  IF I = {} THEN 0 ELSE CHOOSE i \in I : \A j \in I : j <= i

\* the items the attempt of t has pushed on v, in order
Pushed(t, v) ==
    LET P == SelectSeq(wlog[t], LAMBDA e : e.op = "push" /\ e.var = v)
    IN  [i \in 1..Len(P) |-> P[i].val]

\* the item a pop or a peek of v has to give: the attempt sees the shared
\* elements followed by its own pushes, less the items it has popped
ExpectedFront(t, v) ==
    LET all == shared[v].data \o Pushed(t, v)
        n == Calls(t, "pop", v)
    IN  IF n < Len(all) THEN all[n + 1] ELSE NoneVal

\* the closure of t completes a library call that gives it a value
ReadStep(t, ops) ==
    /\ pc[t] = "closure" /\ ~Skipped(t) /\ Cur(t).op \in ops
    /\ pc'[t] = "closure" /\ ip'[t] = ip[t] + 1

\* C19: reads inside an attempt reflect the attempt's own earlier writes: a
\* cell get gives the value last written through get_mut; a map get or
\* contains_key of k gives the value of the latest insert of k, or absent
\* after the latest remove of k; a queue pop or peek gives the shared
\* elements from the front cursor on and then the pushed items, in order.
C19_ReadsOwnWrites ==
    [][\A t \in Threads :
        LET c == Cur(t)
            got == regs'[t][c.dst]
            w == LastCall(t, c.var, c.key, {"set", "insert", "remove"})
        IN  /\ ReadStep(t, {"get"}) /\ w # 0 => got = wlog[t][w].val
            /\ ReadStep(t, {"mget"}) /\ w # 0 => got = wlog[t][w].val
            /\ ReadStep(t, {"mhas"}) /\ w # 0 => got = IF wlog[t][w].op = "insert" THEN 1 ELSE 0
            /\ ReadStep(t, {"pop", "peek"}) => got = ExpectedFront(t, c.var)
            /\ ReadStep(t, {"peek", "get", "mget", "mhas"}) => txv'[t] = txv[t]]_vars

\* the closure has popped the shared item and its own pushed 8, peeked the
\* 8 in between, read back its insert of key 2 and found the key absent
\* after its remove
C19_Witness ==
    \E t \in Threads :
        /\ scenario = "own" /\ pc[t] = "closure" /\ ip[t] = 12
        /\ Calls(t, "pop", QueueQ) = 2
        /\ wlog[t][LastCall(t, QueueQ, 0, {"pop"})].val = 8
        /\ regs[t][1] = 0 /\ regs[t][2] = NoneVal

\* C20: the three concurrent swaps of triple_swap all commit and leave the
\* cells exchanged; in general, whenever no swap is in the middle of its
\* write phase, the cells are exchanged if the number of committed swaps is
\* odd and hold their initial values if it is even.
C20_SwapParity ==
    scenario = "swap" =>
        /\ ~WritePending(CellA) /\ ~WritePending(CellB) =>
              << shared[CellA].data, shared[CellB].data >> =
                  IF Len(log) % 2 = 1 THEN << InitData[CellB], InitData[CellA] >>
                  ELSE << InitData[CellA], InitData[CellB] >>
        /\ \A t \in Threads : result[t].kind \notin ErrorKinds
        /\ AllDone =>
              /\ \A t \in Runs(scenario) : result[t].kind = "Ok"
              /\ Len(log) = TripleSwapRuns
              /\ shared[CellA].data = InitData[CellB] /\ shared[CellB].data = InitData[CellA]

\* the three swaps have committed, one of them at its third attempt
C20_Witness ==
    /\ scenario = "swap" /\ AllDone
    /\ Len(log) = 3
    /\ \E t \in Threads : attempt[t] = 3
    /\ shared[CellA].data = 17 /\ shared[CellB].data = 5

\* ------------------------------------------- claims about the worker loops
\* the sum of f over the finite set S of integers
SumOf(f, S) ==
    IF S = {} THEN 0
    ELSE LET lo == Min(S)
             hi == CHOOSE x \in S : \A y \in S : y <= x
             upTo[n \in (lo - 1)..hi] ==
                 IF n < lo THEN 0 ELSE upTo[n - 1] + (IF n \in S THEN f[n] ELSE 0)
         IN  upTo[hi]

\* no commit is in its write phase
Quiet == \A t \in Threads : pc[t] # "write"

\* the items the runs of worker t have reported as forwarded
Forwarded(t) ==
    worker[t].acc + (IF pc[t] = "done" /\ result[t].kind = "Ok" THEN result[t].val ELSE 0)

\* the chain read from the sink back to the source
ChainItems == shared[QueueS].data \o shared[QueueR].data \o shared[QueueQ].data

\* C21: in the chain source -> broker -> sink no item is lost or duplicated
\* and the order of the source is kept: at all times the items of the sink,
\* the broker and the source, read in this order, are in source order
\* without repetition, and whenever no commit is in its write phase they are
\* exactly the initial source (every item in exactly one queue) and the hops
\* made equal the forwards the runs returned; once the sink holds all items
\* the source and the broker are empty.  No run ends in an error.
C21_ChainKeepsItems ==
    scenario = "chain" =>
        /\ \A i, j \in DOMAIN ChainItems : i < j => ChainItems[i] < ChainItems[j]
        /\ Quiet =>
              /\ ChainItems = Source
              /\ SumOf([t \in Threads |-> Forwarded(t)], Threads) =
                    Len(shared[QueueR].data) + 2 * Len(shared[QueueS].data)
        /\ Quiet /\ shared[QueueS].data = Source =>
              shared[QueueQ].data = << >> /\ shared[QueueR].data = << >>
        /\ \A t \in Threads : result[t].kind \in {"none", "Ok"}

\* all items have reached the sink, every worker has forwarded some of them
\* and one run needed a second attempt
C21_Witness ==
    /\ scenario = "chain" /\ Quiet
    /\ shared[QueueS].data = Source
    /\ \A t \in Runs(scenario) : Forwarded(t) >= 1
    /\ \E t \in Threads : attempt[t] >= 2

\* the keys the workers of maps_grouping move
MovedKeys == {1, 2, 3}

\* the value a key has in the committed maps (it is in one of them)
ValueOf(k) ==
    IF k \in DOMAIN shared[MapM].data THEN shared[MapM].data[k] ELSE shared[MapN].data[k]

\* C22: the workers of maps_grouping move keys between the maps (remove from
\* the source, insert with value + 1 into the target, add 1 to the source's
\* removed_items through get_mut).  Whenever no commit is in its write phase
\* every key is in exactly one map, it has been moved at most once, and the
\* two removed_items entries count every move made; when all workers have
\* returned, each has returned Ok and the maps are the same whatever the
\* interleaving: keys 1 and 2 moved to the second map, key 3 to the first,
\* two removals counted in the first map and one in the second.
C22_GroupingDeterministic ==
    scenario = "group" =>
        /\ Quiet =>
              /\ \A k \in MovedKeys : (k \in DOMAIN shared[MapM].data) # (k \in DOMAIN shared[MapN].data)
              /\ \A k \in MovedKeys : ValueOf(k) \in {0, 1}
              /\ shared[MapM].data[RemovedItems] + shared[MapN].data[RemovedItems] =
                    SumOf([k \in MovedKeys |-> ValueOf(k)], MovedKeys)
        /\ \A t \in Threads : result[t].kind \in {"none", "Ok"}
        /\ AllDone =>
              /\ shared[MapM].data = (3 :> 1) @@ (RemovedItems :> 2)
              /\ shared[MapN].data = (1 :> 1) @@ (2 :> 1) @@ (RemovedItems :> 1)

\* both workers have committed, the second after a retry, and both have
\* added to removed_items of the first map
C22_Witness ==
    /\ scenario = "group" /\ AllDone
    /\ \E t \in Threads : attempt[t] >= 2
    /\ shared[MapM].data[RemovedItems] = 2
    /\ \A t \in Runs(scenario) : result[t].kind = "Ok"

\* the fuel of the items of the committed queue, and of the cells the
\* committed map holds
QueueFuel == SumOf([i \in DOMAIN shared[QueueQ].data |-> shared[QueueQ].data[i] % ItemBase],
                   DOMAIN shared[QueueQ].data)

MapFuel == SumOf([k \in DOMAIN shared[MapM].data |-> shared[shared[MapM].data[k]].data],
                 DOMAIN shared[MapM].data)

\* C23: in the pipeline source cell -> queue -> cells of the map -> sink
\* cell the fuel in the source, the queue items, the map's cells and the
\* sink adds up to the total whenever no commit is in its write phase, also
\* when runs have ended with TooManyTransactionRetryAttempts (the only error
\* a run ends with); no amount is negative; a third transaction returns the
\* total only when the sink holds it, and when the sink holds the total the
\* source is 0, the queue is empty and every cell of the map is 0.
C23_FuelConserved ==
    scenario = "fuel" =>
        /\ Quiet =>
              /\ shared[CellA].data + QueueFuel + MapFuel + shared[CellB].data = FuelTotal
              /\ shared[CellA].data >= 0 /\ shared[CellB].data >= 0
              /\ \A k \in DOMAIN shared[MapM].data :
                    /\ shared[MapM].data[k] \in NewCells
                    /\ shared[shared[MapM].data[k]].data >= 0
              /\ shared[CellB].data = FuelTotal =>
                    /\ shared[CellA].data = 0
                    /\ shared[QueueQ].data = << >>
                    /\ \A k \in DOMAIN shared[MapM].data : shared[shared[MapM].data[k]].data = 0
        /\ \A t \in Threads :
              /\ result[t].kind \in {"none", "Ok", "TooManyTransactionRetryAttempts"}
              /\ result[t].kind = "Ok" /\ worker[t].round % 3 = 0 /\ result[t].val = FuelTotal =>
                    shared[CellB].data = FuelTotal

\* all the fuel has reached the sink through a cell of the map while a run
\* of the other worker has ended with TooManyTransactionRetryAttempts
C23_Witness ==
    /\ scenario = "fuel" /\ Quiet
    /\ shared[CellB].data = FuelTotal
    /\ DOMAIN shared[MapM].data # {}
    /\ \E t \in Threads : result[t].kind = "TooManyTransactionRetryAttempts"
    /\ \E t \in Threads : result[t] = [kind |-> "Ok", val |-> FuelTotal]

\* C24: the guard commit holds on a tracked variable is the write lock iff
\* the delta of its working copy is non-empty (cell: get_mut or take was
\* called; queue: front_position > 0 or pushed items; map: overlay or
\* tombstones non-empty) and the read lock otherwise; commit() under the
\* read lock changes neither data nor version, under the write lock it
\* increments the version.
C24_WriteLockIffDelta ==
    /\ [](\A t \in Threads : \A v \in DOMAIN guards[t] :
            LET tv == txv[t][v] IN
            /\ guards[t][v] \in {"Read", "Write"}
            /\ guards[t][v] = "Write" <=>
                  CASE Kind(v) = "cell" -> Calls(t, "set", v) > 0
                    [] Kind(v) = "queue" -> tv.front_position > 0 \/ Len(tv.push_back_items) > 0
                    [] Kind(v) = "map" -> DOMAIN tv.tx_map # {} \/ tv.tx_removed_keys # {})
    /\ [][\A t \in Threads : \A v \in Vars :
            CommitVarStep(t, v) =>
                IF guards[t][v] = "Read" THEN shared'[v] = shared[v]
                ELSE shared'[v].version = shared[v].version + 1]_vars

\* a commit has passed the cell it only read, under the read lock and
\* leaving it as it was, and holds the write lock on the cell it wrote
C24_Witness ==
    \E t \in Threads :
        /\ scenario = "skew" /\ pc[t] = "write"
        /\ CellA \in DOMAIN reg[t] /\ CellA \notin DOMAIN guards[t]
        /\ Calls(t, "set", CellA) = 0 /\ ~txv[t][CellA].write_tx_value
        /\ shared[CellA] = snap[t][CellA]
        /\ CellB \in DOMAIN guards[t] /\ guards[t][CellB] = "Write"
        /\ Calls(t, "set", CellB) = 1

\* the contents the test gave the container
StartData(v) == IF scenario \in Scenarios THEN InitData[v] ELSE WorkData(scenario)[v]

\* the data of v after the first k successful validations have been applied
DataAt(k, v) ==
    LET W == {j \in 1..k : v \in log[j].w}
    IN  IF W = {} THEN StartData(v) ELSE log[CHOOSE j \in W : \A i \in W : i <= j].d[v]

\* the closure of t is at a read of a queue or of a map that goes to the
\* shared container
SharedRead(t) ==
    /\ pc[t] = "closure" /\ ~Skipped(t) /\ HasRef(t)
    /\ \/ Cur(t).op \in {"pop", "peek", "is_empty", "next", "first_key"}
       \/ /\ Cur(t).op \in {"mget", "mget_mut", "mget_mut_opt", "mhas"}
          /\ ReachesShared(txv[t][Cur(t).var], Cur(t).key)

\* C25: a queue read (pop, peek, is_empty, iterator next) and a map read
\* that reaches the shared data (get, get_mut, contains_key of a key in
\* neither overlay nor tombstones; first_key; iterator next) ends the
\* attempt with ConcurrentUpdate iff the shared version differs from the
\* handle's initial_version at that moment, the failing call leaving the
\* working copy as it was; a read that succeeds sees the shared data of the
\* moment the variable was opened.
C25_ReadsCheckVersion ==
    /\ [][\A t \in Threads :
            LET v == Cur(t).var
                stale == shared[v].version # txv[t][v].initial_version
            IN  SharedRead(t) /\ << pc[t], ip[t] >>' # << pc[t], ip[t] >> =>
                    /\ stale <=> pc'[t] = "start" /\ ended'[t].cu = ended[t].cu + 1
                    /\ ~stale => shared[v].data = DataAt(opened[t][v], v)]_vars
    /\ [](\A t \in Threads :
            LET v == Cur(t).var
                tv == txv[t][v]
                stale == shared[v].version # tv.initial_version
            IN  SharedRead(t) =>
                    /\ Cur(t).op = "pop" =>
                          /\ PopTx(tv, shared[v]).err <=> stale
                          /\ stale => PopTx(tv, shared[v]).tv = tv
                    /\ Cur(t).op \in {"mget_mut", "mget_mut_opt"} =>
                          /\ GetMutTx(tv, shared[v], Cur(t).key).err <=> stale
                          /\ stale => GetMutTx(tv, shared[v], Cur(t).key).tv = tv)
    /\ [](\A v \in Vars : Kind(v) # "cell" /\ ~WritePending(v) =>
            shared[v].data = DataAt(Len(log), v))

\* an attempt of each worker on the queue has ended with ConcurrentUpdate at
\* a read, after the other worker's commit
C25_Witness ==
    /\ scenario = "queue_ops"
    /\ shared[QueueQ].version >= 1
    /\ \E t \in Threads : pc[t] = "start" /\ ended[t].cu = 1 /\ ended[t].vf = 0
    /\ \E t \in Threads : pc[t] = "done" /\ result[t].kind = "Ok"

\* the index in the history of the attempt of t of its latest iter() on v
LastIter(t, v) == LastCall(t, v, 0, {"iter"})

\* the entries of the history of the attempt of t that its latest iterator
\* over v has yielded
Yielded(t, v) ==
    SelectSeq(SubSeq(wlog[t], LastIter(t, v) + 1, Len(wlog[t])),
              LAMBDA n : n.op = "next" /\ n.var = v /\ n.val # NoneVal)

\* the latest iterator over v ran to its end, and the closure has not
\* changed v since it created it
IterComplete(t, v) ==
    /\ LastIter(t, v) # 0
    /\ \E i \in (LastIter(t, v) + 1)..Len(wlog[t]) :
            wlog[t][i].op = "next" /\ wlog[t][i].var = v /\ wlog[t][i].val = NoneVal
    /\ \A i \in (LastIter(t, v) + 1)..Len(wlog[t]) :
            wlog[t][i].var = v => wlog[t][i].op \notin {"push", "pop", "insert", "remove"}

\* C26: a successful commit of a queue with a non-empty delta removes
\* front_position elements from the front of the shared queue and appends
\* the pushed items that are left, in push order; the result is what the
\* iterator of the transaction yielded at the end of the closure, and an
\* item the transaction pushed and popped again is not in it.
C26_QueueCommit ==
    [][\A t \in Threads : \A v \in Vars :
        LET tv == txv[t][v]
            old == shared[v].data
            new == shared'[v].data
            popped == Calls(t, "pop", v)
        IN  CommitVarStep(t, v) /\ Kind(v) = "queue" /\ guards[t][v] = "Write" =>
                /\ tv.front_position <= Len(old)
                /\ new = SubSeq(old, tv.front_position + 1, Len(old)) \o tv.push_back_items
                /\ popped >= tv.front_position
                /\ new = SubSeq(old, tv.front_position + 1, Len(old))
                            \o SubSeq(Pushed(t, v), popped - tv.front_position + 1, Len(Pushed(t, v)))
                /\ IterComplete(t, v) =>
                      new = [i \in 1..Len(Yielded(t, v)) |-> Yielded(t, v)[i].val]]_vars

\* the commit of queue_operations has left the queue with the 888 alone:
\* the two shared elements and the 777 it pushed were popped, and its last
\* iterator had yielded the 888 and then None
C26_Witness ==
    \E t \in Threads :
        /\ scenario = "queue_ops" /\ pc[t] = "write" /\ QueueQ \in appliedTo[t]
        /\ Pushed(t, QueueQ) = << 777, 888 >>
        /\ Calls(t, "pop", QueueQ) = 3
        /\ IterComplete(t, QueueQ)
        /\ shared[QueueQ].data = << 888 >>

\* C27: a successful commit of a map with a non-empty delta removes the
\* tombstoned keys from the shared map and then writes the overlay entries
\* over it: the shared map becomes (shared minus tombstones) overridden by
\* the overlay, which is the key/value sequence the iterator of the
\* transaction yielded at the end of the closure.
C27_MapCommit ==
    [][\A t \in Threads : \A v \in Vars :
        LET tv == txv[t][v]
            old == shared[v].data
            new == shared'[v].data
            Y == Yielded(t, v)
        IN  CommitVarStep(t, v) /\ Kind(v) = "map" /\ guards[t][v] = "Write" =>
                /\ DOMAIN new = ((DOMAIN old) \ tv.tx_removed_keys) \cup DOMAIN tv.tx_map
                /\ \A k \in tv.tx_removed_keys : k \notin DOMAIN new
                /\ \A k \in DOMAIN new :
                      new[k] = IF k \in DOMAIN tv.tx_map THEN tv.tx_map[k] ELSE old[k]
                /\ IterComplete(t, v) =>
                      /\ {Y[i].key : i \in 1..Len(Y)} = DOMAIN new
                      /\ \A i \in 1..Len(Y) : new[Y[i].key] = Y[i].val
                      /\ \A i \in 1..(Len(Y) - 1) : Y[i].key < Y[i + 1].key]_vars

\* the commit of map_operations has removed the keys 1 and 5, overwritten
\* key 4 and added key 3, as its last iterator had yielded
C27_Witness ==
    \E t \in Threads :
        /\ scenario = "map_ops" /\ pc[t] = "write" /\ MapM \in appliedTo[t]
        /\ delta[t][MapM].tx_removed_keys = {1, 5}
        /\ IterComplete(t, MapM)
        /\ Len(Yielded(t, MapM)) = 3
        /\ shared[MapM].data = (2 :> 202) @@ (3 :> 2525) @@ (4 :> 9999)

RECURSIVE PopAll(_, _)
\* the items successive pops of the working copy tv give until the first None
PopAll(tv, sv) ==
    LET R == PopTx(tv, sv)
    IN  IF R.err \/ R.item = NoneVal THEN << >> ELSE << R.item >> \o PopAll(R.tv, sv)

RECURSIVE PopLeaves(_, _)
\* the working copy those pops leave
PopLeaves(tv, sv) ==
    LET R == PopTx(tv, sv)
    IN  IF R.err \/ R.item = NoneVal THEN tv ELSE PopLeaves(R.tv, sv)

\* the items an iterator created now yields until its first None
IterAll(tv, q) ==
    LET n == CHOOSE c \in 0..(Len(q) + Len(tv.push_back_items)) :
                 /\ QueueIterItem(tv, q, c) = NoneVal
                 /\ \A b \in 0..(c - 1) : QueueIterItem(tv, q, b) # NoneVal
    IN  [i \in 1..n |-> QueueIterItem(tv, q, i - 1)]

\* the shared elements from front_position on, then the pushed items
Remaining(tv, q) ==
    [i \in 1..(Len(q) - tv.front_position + Len(tv.push_back_items)) |->
        IF tv.front_position + i <= Len(q) THEN q[tv.front_position + i]
        ELSE tv.push_back_items[tv.front_position + i - Len(q)]]

\* C28: for a queue handle whose reads do not fail with ConcurrentUpdate,
\* successive pops give the shared elements from front_position on and then
\* the pushed items in push order, and then None, which changes nothing;
\* peek gives what the next pop would give and changes nothing; is_empty
\* holds iff the next pop would give None; an iterator yields the items
\* successive pops would give and changes nothing.
C28_QueueHandle ==
    /\ [](\A t \in Threads : \A v \in DOMAIN txv[t] :
            LET tv == txv[t][v]
                sv == shared[v]
            IN  pc[t] = "closure" /\ Kind(v) = "queue" /\ ReadOk(tv, sv) =>
                    /\ tv.front_position <= Len(sv.data)
                    /\ PopAll(tv, sv) = Remaining(tv, sv.data)
                    /\ PopTx(PopLeaves(tv, sv), sv) =
                          [err |-> FALSE, item |-> NoneVal, tv |-> PopLeaves(tv, sv)]
                    /\ PeekItem(tv, sv.data) = PopTx(tv, sv).item
                    /\ IsEmpty(tv, sv.data) <=> PopTx(tv, sv).item = NoneVal
                    /\ IterAll(tv, sv.data) = PopAll(tv, sv))
    /\ [][\A t \in Threads :
            LET v == Cur(t).var
                tv == txv[t][v]
                rest == Remaining(tv, shared[v].data)
                got == regs'[t][Cur(t).dst]
                c == regs[t][Code(t)[ip[t]].key]
            IN  pc[t] = "closure" /\ ~Skipped(t) /\ Kind(v) = "queue" /\ ip'[t] = ip[t] + 1 =>
                    /\ Cur(t).op = "pop" =>
                          /\ got = IF rest = << >> THEN NoneVal ELSE Head(rest)
                          /\ Remaining(txv'[t][v], shared[v].data) =
                                IF rest = << >> THEN rest ELSE Tail(rest)
                          /\ rest = << >> => txv'[t] = txv[t]
                    /\ Cur(t).op = "peek" =>
                          /\ got = IF rest = << >> THEN NoneVal ELSE Head(rest)
                          /\ txv'[t] = txv[t]
                    /\ Cur(t).op = "is_empty" =>
                          /\ got = (IF rest = << >> THEN 1 ELSE 0)
                          /\ txv'[t] = txv[t]
                    /\ Cur(t).op = "next" =>
                          /\ got = IF c < Len(rest) THEN rest[c + 1] ELSE NoneVal
                          /\ txv'[t] = txv[t]]_vars

\* with one shared element popped and one left, and one item pushed, the
\* iterator of queue_operations has yielded the shared 20, the pushed 777
\* and None, and the closure goes on to pop them
C28_Witness ==
    \E t \in Threads :
        /\ scenario = "queue_ops" /\ pc[t] = "closure" /\ ip[t] = 10
        /\ txv[t][QueueQ].front_position = 1
        /\ txv[t][QueueQ].push_back_items = << 777 >>
        /\ IterComplete(t, QueueQ)
        /\ Len(Yielded(t, QueueQ)) = 2
        /\ Yielded(t, QueueQ)[1].val = 20 /\ Yielded(t, QueueQ)[2].val = 777

\* the logical map of a working copy: (shared minus tombstones) overridden
\* by the overlay
Logical(tv, m) ==
    [k \in ((DOMAIN m) \ tv.tx_removed_keys) \cup DOMAIN tv.tx_map |->
        IF k \in DOMAIN tv.tx_map THEN tv.tx_map[k] ELSE m[k]]

\* the keys the working copy or the shared map knows, and one more
KeysNear(tv, m) ==
    LET K == (DOMAIN m) \cup (DOMAIN tv.tx_map) \cup tv.tx_removed_keys
    IN  K \cup {IF K = {} THEN 0 ELSE 1 + CHOOSE k \in K : \A j \in K : j <= k}

RECURSIVE MapIterAll(_, _, _)
\* the key/value pairs an iterator with cursor c yields until its first None
MapIterAll(tv, m, c) ==
    LET k == MapIterKey(tv, m, c)
    IN  IF k = NoneVal THEN << >>
        ELSE << [key |-> k, val |-> MapIterValue(tv, m, k)] >> \o MapIterAll(tv, m, k)

\* C29: for a map handle whose reads do not fail with ConcurrentUpdate,
\* get, get_mut, contains_key, first_key and the iterator answer for the
\* logical map M = (shared minus tombstones) overridden by the overlay:
\* contains_key(k) iff get(k) is Some iff the iterator yields k; get and
\* get_mut give M[k]; first_key is the smallest key of M, None iff M is
\* empty; the iterator yields every key of M once, in strictly ascending
\* order, with the value of M.
C29_MapHandle ==
    /\ [](\A t \in Threads : \A v \in DOMAIN txv[t] :
            LET tv == txv[t][v]
                sv == shared[v]
                M == Logical(tv, sv.data)
                Y == MapIterAll(tv, sv.data, NoneVal)
            IN  pc[t] = "closure" /\ Kind(v) = "map" /\ ReadOk(tv, sv) =>
                    /\ tv.tx_removed_keys \cap DOMAIN tv.tx_map = {}
                    /\ \A k \in KeysNear(tv, sv.data) :
                          /\ ContainsKey(tv, sv.data, k) <=> k \in DOMAIN M
                          /\ GetValue(tv, sv.data, k) # NoneVal <=> k \in DOMAIN M
                          /\ k \in DOMAIN M <=> \E i \in 1..Len(Y) : Y[i].key = k
                          /\ k \in DOMAIN M => GetValue(tv, sv.data, k) = M[k]
                          /\ ~GetMutTx(tv, sv, k).err
                          /\ GetMutTx(tv, sv, k).val = GetValue(tv, sv.data, k)
                          /\ Logical(GetMutTx(tv, sv, k).tv, sv.data) = M
                    /\ FirstKey(tv, sv.data) =
                          IF DOMAIN M = {} THEN NoneVal
                          ELSE CHOOSE k \in DOMAIN M : \A j \in DOMAIN M : k <= j
                    /\ Len(Y) = Cardinality(DOMAIN M)
                    /\ \A i \in 1..Len(Y) : Y[i].key \in DOMAIN M /\ Y[i].val = M[Y[i].key]
                    /\ \A i \in 1..(Len(Y) - 1) : Y[i].key < Y[i + 1].key)
    /\ [][\A t \in Threads :
            LET v == Cur(t).var
                k == Cur(t).key
                M == Logical(txv[t][v], shared[v].data)
                got == regs'[t][Cur(t).dst]
                c == Code(t)[ip[t]].key
                after == {j \in DOMAIN M : j > regs[t][c]}
            IN  pc[t] = "closure" /\ ~Skipped(t) /\ Kind(v) = "map" /\ ip'[t] = ip[t] + 1 =>
                    /\ Cur(t).op \in {"mget", "mget_mut", "mget_mut_opt"} =>
                          got = IF k \in DOMAIN M THEN M[k] ELSE NoneVal
                    /\ Cur(t).op = "mhas" => got = (IF k \in DOMAIN M THEN 1 ELSE 0)
                    /\ Cur(t).op = "first_key" =>
                          got = IF DOMAIN M = {} THEN NoneVal
                                ELSE CHOOSE a \in DOMAIN M : \A j \in DOMAIN M : a <= j
                    /\ Cur(t).op = "next" =>
                          IF after = {} THEN got = NoneVal /\ regs'[t][c] = regs[t][c]
                          ELSE /\ regs'[t][c] = CHOOSE a \in after : \A j \in after : a <= j
                               /\ got = M[regs'[t][c]]
                    /\ Cur(t).op \in {"mget", "mhas", "first_key", "next", "mget_mut_opt"} =>
                          Logical(txv'[t][v], shared[v].data) = M]_vars

\* with the keys 1, 2, 4, 5 shared, 5 removed, 1 and 4 overwritten and 3
\* inserted, the iterator of map_operations has yielded 1, 2, 3, 4 with
\* the values of the overlay for 1, 3 and 4
C29_Witness ==
    \E t \in Threads :
        /\ scenario = "map_ops" /\ pc[t] = "closure" /\ ip[t] = 22
        /\ DOMAIN shared[MapM].data = {1, 2, 4, 5}
        /\ txv[t][MapM].tx_removed_keys = {5}
        /\ DOMAIN txv[t][MapM].tx_map = {1, 3, 4}
        /\ IterComplete(t, MapM)
        /\ [i \in 1..Len(Yielded(t, MapM)) |-> Yielded(t, MapM)[i].val] = << 8888, 202, 2525, 9999 >>

\* the step of t takes it out of its attempt
AttemptEnds(t) == pc'[t] \in {"start", "done"} /\ pc[t] \notin {"start", "done"}

\* C30: inside an attempt a registry slot is created InUse by the first
\* track of a variable, becomes Pending when the handle is dropped and InUse
\* again on a new track, and stays in the registry until the attempt ends;
\* when the closure has returned and commit starts every slot is Pending, so
\* that neither commit nor TxRef::drop panics.
C30_SlotsPendingAtCommit ==
    /\ [][\A t \in Threads : \A v \in Vars :
            LET had == v \in DOMAIN reg[t]
                has == v \in DOMAIN reg'[t]
                inUse(r) == r \in {"InUse", "Leaked"}
            IN  /\ ~had /\ has => At(t, "track") /\ Cur(t).var = v /\ reg'[t][v] = "InUse"
                /\ had /\ ~has => AttemptEnds(t)
                /\ had /\ has /\ inUse(reg[t][v]) /\ reg'[t][v] = "Pending" =>
                      (At(t, "drop") /\ Cur(t).var = v) \/ At(t, "ret")
                /\ had /\ has /\ reg[t][v] = "Pending" /\ inUse(reg'[t][v]) =>
                      At(t, "track") /\ Cur(t).var = v
                /\ At(t, "drop") /\ ip'[t] # ip[t] => reg[t][Cur(t).var] = "InUse"]_vars
    /\ [](\A t \in Threads : pc[t] \in {"locking", "write"} =>
            \A v \in DOMAIN reg[t] : reg[t][v] = "Pending")
    /\ [](\A t \in Threads : result[t].kind # "Panic")

\* the closure forgot the handle of the second cell: commit took the write
\* lock of the first cell, met the slot still InUse and panicked, leaving
\* the first cell unwritten and unlocked
C30_Witness ==
    \E t \in Threads :
        /\ scenario = "leak" /\ pc[t] = "done"
        /\ result[t].kind = "Panic"
        /\ lock[CellA] = Unlocked
        /\ \A i \in 1..Len(log) : log[i].t # t

\* the closure of t tracks v for the first time in its attempt
FirstTrack(t, v) == pc[t] = "closure" /\ v \notin DOMAIN reg[t] /\ v \in DOMAIN reg'[t]

\* a working copy with nothing of an earlier attempt in it
Pristine(v, tv) ==
    CASE Kind(v) = "cell" -> ~tv.write_tx_value
      [] Kind(v) = "queue" -> tv.front_position = 0 /\ tv.push_back_items = << >>
      [] Kind(v) = "map" -> tv.tx_map = EmptyMap /\ tv.tx_removed_keys = {}

\* C31: every attempt starts with an empty registry; the working copies of
\* a failed attempt are dropped with it and shared state is written only
\* from the working copies of the attempt that has just passed validation;
\* the first track of a variable in an attempt opens it with the version
\* (and, for a cell, the data) the container has at that moment.
C31_FreshRegistryPerAttempt ==
    /\ [](\A t \in Threads : pc[t] = "start" => reg[t] = EmptyMap /\ txv[t] = EmptyMap)
    /\ [][\A t \in Threads :
            /\ attempt'[t] = attempt[t] + 1 =>
                 pc'[t] = "closure" /\ reg'[t] = EmptyMap /\ txv'[t] = EmptyMap
            /\ ended'[t].cu + ended'[t].vf > FailedAttempts(t) =>
                 shared' = shared /\ reg'[t] = EmptyMap /\ txv'[t] = EmptyMap
            /\ \A v \in Vars :
                 /\ FirstTrack(t, v) =>
                      /\ txv'[t][v].initial_version = shared[v].version
                      /\ Pristine(v, txv'[t][v])
                      /\ Kind(v) = "cell" => txv'[t][v].tx_value = shared[v].data
                      /\ shared' = shared
                 /\ shared'[v] # shared[v] /\ lock[v].writer = t =>
                      /\ pc[t] = "write" /\ LogIndex(t) > 0
                      /\ delta[t][v].initial_version = shared[v].version
                      /\ shared'[v].data = DeltaApplied(v, delta[t][v], shared[v].data)]_vars
    /\ [][\A v \in Vars : shared'[v] # shared[v] => lock[v].writer # 0]_vars

\* a run whose first attempt failed validation has opened the cell again in
\* its second attempt, with the version and the value another run committed
C31_Witness ==
    \E t \in Threads :
        /\ pc[t] = "closure" /\ attempt[t] = 2 /\ ended[t].vf = 1
        /\ CellA \in DOMAIN txv[t]
        /\ txv[t][CellA].initial_version = 1 /\ shared[CellA].version = 1
        /\ txv[t][CellA].tx_value = shared[CellA].data
        /\ shared[CellA].data # InitData[CellA]

\* the library call the closure of t is at takes the read lock of its
\* container: tx_var() of a first track, read_queue(), read_map()
SharedCall(t) ==
    \/ pc[t] = "closure" /\ ~Skipped(t) /\ Cur(t).op = "track" /\ Cur(t).var \notin DOMAIN reg[t]
    \/ SharedRead(t)

\* the closure of t completes a library call (or leaves with an error)
ClosureStep(t) == pc[t] = "closure" /\ << pc[t], ip[t] >>' # << pc[t], ip[t] >>

\* C32: whenever a thread is not in Tx::commit it holds no container lock:
\* the read lock of an open or of a read is taken and released inside the
\* one library call, which needs no other lock than that of its own
\* container and is granted next to other readers; the locks a thread holds
\* are exactly the guards of its commit, and a write lock is only ever
\* taken in the lock phase of commit.
C32_NoLockAcrossUserCode ==
    /\ [](\A t \in Threads :
            /\ pc[t] \notin {"locking", "write"} =>
                 guards[t] = EmptyMap /\ \A v \in Vars : ~Holds(t, v)
            /\ \A v \in Vars :
                 /\ Holds(t, v) <=> v \in DOMAIN guards[t]
                 /\ lock[v].writer = t <=> v \in DOMAIN guards[t] /\ guards[t][v] = "Write")
    /\ [][\A t \in Threads :
            /\ ClosureStep(t) =>
                 /\ lock' = lock /\ guards' = guards
                 /\ SharedCall(t) => lock[Cur(t).var].writer = 0
            /\ \A v \in Vars :
                 lock'[v].writer = t /\ lock[v].writer # t =>
                    pc[t] = "locking" /\ pc'[t] = "locking" /\ IsDirty(v, txv[t][v])]_vars

\* a closure that has made calls on its handles holds no lock and is at a
\* call that takes the read lock of a container on which a committing
\* thread holds its read guard, next to a write guard on another container
C32_Witness ==
    \E t, u \in Threads :
        /\ t # u /\ pc[t] = "closure" /\ ip[t] > 1 /\ SharedCall(t)
        /\ \A v \in Vars : ~Holds(t, v)
        /\ pc[u] = "write" /\ u \in lock[Cur(t).var].readers
        /\ \E v \in Vars : lock[v].writer = u

\* the step ends the attempt of t in a failure whose check was on v: the
\* read that returned ConcurrentUpdate, or a can_commit() that is false
FailsOn(t, v) ==
    \/ ended'[t].cu = ended[t].cu + 1 /\ v = Cur(t).var
    \/ /\ ended'[t].vf = ended[t].vf + 1
       /\ v \in DOMAIN guards[t] /\ ~CanCommit(txv[t][v], shared[v])

\* a run other than t validated after the attempt of t opened v, with a
\* write of v that has since been applied to the container
WrittenSinceOpen(t, v) ==
    /\ v \in DOMAIN txv[t]
    /\ \E i \in (opened[t][v] + 1)..Len(log) :
          /\ log[i].t # t /\ v \in log[i].w
          /\ VerAt(i, v) > txv[t][v].initial_version
          /\ shared[v].version >= VerAt(i, v)

\* C33: an attempt fails only on a variable it tracks to which another
\* transaction has committed a write since the attempt opened it; a run
\* fails no attempt, and so commits at its first one, as long as no other
\* run has committed.
C33_FailsOnlyAgainstCommit ==
    /\ [][\A t \in Threads :
            ended'[t].cu + ended'[t].vf > FailedAttempts(t) =>
                /\ \E v \in Vars : FailsOn(t, v)
                /\ \A v \in Vars : FailsOn(t, v) => WrittenSinceOpen(t, v)]_vars
    /\ [](\A t \in Threads :
            /\ CommitsOfOthers(t) = 0 => FailedAttempts(t) = 0 /\ attempt[t] <= 1
            /\ FailedAttempts(t) > 0 => \E i \in DOMAIN log : log[i].t # t /\ log[i].w # {})

\* one run committed a write at its first attempt, the first commit of
\* all; the other got ConcurrentUpdate from a read against that one commit
\* and is in its second attempt
C33_Witness ==
    \E t, u \in Threads :
        /\ t # u
        /\ result[u].kind = "Ok" /\ attempt[u] = 1 /\ LogIndex(u) = 1 /\ log[1].w # {}
        /\ ended[t] = [cu |-> 1, vf |-> 0] /\ attempt[t] = 2 /\ pc[t] = "closure"
        /\ CommitsOfOthers(t) = 1

\* the working copies of t are all clean: the transaction is read-only
ReadOnly(t) == \A v \in DOMAIN txv[t] : ~IsDirty(v, txv[t][v])

\* no transaction that validated after the attempt of t opened v wrote v
OnlyReadersSince(t, v) == \A i \in (opened[t][v] + 1)..Len(log) : v \notin log[i].w

\* C34: a read-only transaction holds read guards only in its commit, and
\* its commit leaves every container as it was, version included; an
\* attempt's reads and its validation pass on every variable that only
\* read-only commits have touched since it was opened, so a run fails no
\* attempt while all commits of other runs are read-only.
C34_ReadOnlyCommit ==
    /\ [](\A t \in Threads :
            /\ pc[t] \in {"locking", "write"} /\ ReadOnly(t) =>
                 \A v \in DOMAIN guards[t] :
                    guards[t][v] = "Read" /\ t \in lock[v].readers /\ lock[v].writer = 0
            /\ pc[t] \in {"closure", "locking"} =>
                 \A v \in DOMAIN txv[t] :
                    OnlyReadersSince(t, v) =>
                        ReadOk(txv[t][v], shared[v]) /\ CanCommit(txv[t][v], shared[v])
            /\ (\A i \in DOMAIN log : log[i].t # t => log[i].w = {}) => FailedAttempts(t) = 0)
    /\ [][\A t \in Threads :
            pc[t] \in {"locking", "write"} /\ ReadOnly(t) /\ << pc[t], guards[t] >>' # << pc[t], guards[t] >> =>
                /\ shared' = shared
                /\ Len(log') > Len(log) => log'[Len(log')] = [LogEntry(t) EXCEPT !.w = {}]]_vars

\* two read-only transactions are in their commit at the same time, each
\* with a read guard on the cell and on the queue; one of them has passed
\* validation; the writer next to them has lost no attempt
C34_Witness ==
    \E t, u \in Threads :
        /\ t # u /\ scenario = "read"
        /\ pc[t] = "write" /\ pc[u] = "locking" /\ ReadOnly(t) /\ ReadOnly(u)
        /\ guards[t] = guards[u] /\ DOMAIN guards[t] = {CellA, QueueQ}
        /\ lock[CellA].readers = {t, u} /\ lock[QueueQ].readers = {t, u}
        /\ \A w \in Threads \ {t, u} : FailedAttempts(w) = 0 /\ pc[w] = "closure"

\* the closure of t tracks nothing but cells
CellsOnly(t) ==
    \A i \in DOMAIN code[t] :
        code[t][i].op = "track" => code[t][i].var \in Vars /\ Kind(code[t][i].var) = "cell"

\* the attempt of t opened the cell v before a write that has been applied
Stale(t, v) == txv[t][v].initial_version # shared[v].version

\* C35: get and get_mut of a cell never fail and never look at the shared
\* cell: get gives the attempt's last write or else the value the cell had
\* when the attempt opened it, however stale; a transaction that tracks
\* only cells never ends an attempt in ConcurrentUpdate; a stale cell is
\* caught by the validation of commit and by nothing before it.
C35_CellReadsNeverAbort ==
    /\ [][\A t \in Threads :
            /\ At(t, "get") /\ HasRef(t) => ENABLED CellGet(t)
            /\ (At(t, "set") \/ At(t, "add")) /\ HasRef(t) => ENABLED CellGetMut(t)
            /\ pc[t] = "closure" /\ ~Skipped(t) /\ Cur(t).op \in {"get", "set", "add", "take"}
                  /\ << pc[t], ip[t] >>' # << pc[t], ip[t] >> =>
                 /\ pc'[t] = "closure" /\ ip'[t] = ip[t] + 1
                 /\ ended'[t] = ended[t] /\ result'[t] = result[t]
                 /\ txv'[t][Cur(t).var].initial_version = txv[t][Cur(t).var].initial_version
            /\ ReadStep(t, {"get"}) =>
                 LET v == Cur(t).var
                     w == LastCall(t, v, 0, {"set"})
                 IN  regs'[t][Cur(t).dst] =
                        IF w # 0 THEN wlog[t][w].val ELSE DataAt(opened[t][v], v)
            /\ pc[t] = "locking" /\ ToLock(t) = {} /\ pc'[t] # pc[t]
                  /\ (\E v \in DOMAIN txv[t] : Stale(t, v)) =>
                 pc'[t] = "start" /\ ended'[t].vf = ended[t].vf + 1]_vars
    /\ [](\A t \in Threads : CellsOnly(t) => ended[t].cu = 0)

\* a closure that tracks only cells has read the value the cell had when it
\* was opened, after another transaction committed a new value to the cell
\* and so that the read value is not the cell's any more; it goes on
C35_Witness ==
    \E t \in Threads :
        /\ CellsOnly(t) /\ pc[t] = "closure" /\ CellA \in readSet[t]
        /\ Stale(t, CellA) /\ ~WritePending(CellA)
        /\ Calls(t, "set", CellA) = 0
        /\ regs[t][1] = InitData[CellA] /\ shared[CellA].data # InitData[CellA]
        /\ opened[t][CellA] = 0 /\ Len(log) = 1

\* the overlay and the tombstones of a map's working copy have no key in common
Disjoint(tv) == (DOMAIN tv.tx_map) \cap tv.tx_removed_keys = {}

\* the closure of t completes a call of one of ops on its map handle
MapStep(t, ops) ==
    /\ pc[t] = "closure" /\ ~Skipped(t) /\ Cur(t).op \in ops /\ Kind(Cur(t).var) = "map"
    /\ pc'[t] = "closure" /\ ip'[t] = ip[t] + 1

\* C36: the overlay and the tombstones of every map handle are disjoint;
\* insert(k, v) puts k in the overlay and takes it out of the tombstones,
\* remove(k) puts k in the tombstones and takes it out of the overlay,
\* neither touches another key; get_mut(k) adds to the overlay only the
\* shared entry of a k that is in neither set, and changes nothing else.
C36_OverlayTombstonesDisjoint ==
    /\ [](\A t \in Threads : \A v \in DOMAIN txv[t] : Kind(v) = "map" => Disjoint(txv[t][v]))
    /\ [][\A t \in Threads :
            LET v == Cur(t).var
                k == Cur(t).key
                tv == txv[t][v]
                new == txv'[t][v]
            IN
            /\ MapStep(t, {"insert"}) =>
                 /\ DOMAIN new.tx_map = (DOMAIN tv.tx_map) \cup {k}
                 /\ new.tx_removed_keys = tv.tx_removed_keys \ {k}
                 /\ \A j \in DOMAIN tv.tx_map : j # k => new.tx_map[j] = tv.tx_map[j]
            /\ MapStep(t, {"remove"}) =>
                 /\ new.tx_map = Del(tv.tx_map, k)
                 /\ new.tx_removed_keys = tv.tx_removed_keys \cup {k}
            /\ MapStep(t, {"mget_mut", "mget_mut_opt"}) =>
                 /\ new.tx_removed_keys = tv.tx_removed_keys
                 /\ k \in tv.tx_removed_keys => new = tv /\ regs'[t][Cur(t).dst] = NoneVal
                 /\ DOMAIN new.tx_map # DOMAIN tv.tx_map =>
                      /\ k \notin tv.tx_removed_keys /\ k \in DOMAIN shared[v].data
                      /\ DOMAIN new.tx_map = (DOMAIN tv.tx_map) \cup {k}
                      /\ regs'[t][Cur(t).dst] = shared[v].data[k]]_vars

\* map_operations after get_mut of a removed key that the shared map still
\* has: the key is a tombstone and not in the overlay, and a key inserted
\* after its remove is in the overlay and not a tombstone
C36_Witness ==
    \E t \in Threads :
        /\ scenario = "map_ops" /\ pc[t] = "closure" /\ ip[t] = 15
        /\ Cur(t).op = "iter" /\ regs[t][2] = NoneVal
        /\ txv[t][MapM].tx_removed_keys = {5} /\ 5 \in DOMAIN shared[MapM].data
        /\ DOMAIN txv[t][MapM].tx_map = {1, 3, 4}
        /\ LastCall(t, MapM, 4, {"remove"}) # 0

\* the step is the commit() of t on a variable v it holds the write guard of
WriteCommit(t, v) ==
    /\ pc[t] = "write" /\ v \in DOMAIN guards[t] /\ guards[t][v] = "Write"
    /\ v \notin DOMAIN guards'[t]

====
